---- MODULE Spec2Model ----
(***************************************************************************)
(* Model of the OCR publishing application's data-access layer             *)
(* (src/lib/project-service.ts) and of the route handlers that call it.    *)
(*                                                                         *)
(* Storage is the three tables of createTables (projects, page_groups,     *)
(* project_page_groups with its primary key and cascading foreign keys)    *)
(* and the blob store.  The service keeps two module-level caches and the  *)
(* isInitialized flag.  Every service method is an operator from a "world" *)
(* (storage + caches + the plan of failing external calls) to a result     *)
(* record [w, ret, thrown]; the actions of Spec run one method, or one     *)
(* route handler, to completion.  SpecConc runs the cached reads and the   *)
(* updates one await at a time so that requests interleave.                *)
(*                                                                         *)
(* Strings that the code splits on "_" (ids, synthetic page ids) are       *)
(* sequences of their "_"-separated segments: "pagegroup_t3_r1" is         *)
(* <<"pagegroup", "t3", "r1">>, so `a + "_" + b` is a \o <<b>>,            *)
(* id.includes("_") is Len(id) > 1 and id.split("_") is id itself.         *)
(* A value that may be null/undefined is a sequence of length 0 or 1.      *)
(***************************************************************************)
EXTENDS Integers, Sequences, FiniteSets, TLC

VARIABLES projects, pageGroups, links, blobs,
          projectCache, pageGroupCache, isInitialized, now, last, inflight,
          sessionPages

vars == <<projects, pageGroups, links, blobs,
          projectCache, pageGroupCache, isInitialized, now, last, inflight,
          sessionPages>>

\* ------------------------------------------------------------------ bounds
MaxClock == 3
MaxProjects == 1
MaxPageGroups == 2
MaxCalls == 2
MaxSessionPages == 2

\* ------------------------------------------------------- values and inputs
None == <<>>
Some(x) == <<x>>
IsSome(o) == Len(o) = 1

EmptyMap == [x \in {} |-> TRUE]
Put(f, k, v) == [x \in (DOMAIN f) \cup {k} |-> IF x = k THEN v ELSE f[x]]
Drop(f, k) == [x \in (DOMAIN f) \ {k} |-> f[x]]

\* `const x = <v>`: v is evaluated once, then F runs with its value
Bind(v, F(_)) == CHOOSE y \in {F(x) : x \in {v}} : TRUE

\* Date.now() / new Date().toISOString() as a string segment
Stamps == <<"t1", "t2", "t3", "t4", "t5", "t6", "t7", "t8", "t9", "t10", "t11", "t12">>
Stamp(n) == Stamps[n]

\* Math.random().toString(36).substr(2, 9)
Rands == {"r1"}


\* ids a caller may pass that no create call ever generated
UnknownIds == {<<"nosuch">>}

\* slug(): lower-case, trim, runs of non-alphanumerics to "-", strip "-" at
\* both ends; tabulated on the strings the model passes to it
slug(str) ==
    CASE str = "Test" -> "test"
      [] str = "Other" -> "other"
      [] str = "My File" -> "my-file"
      [] str = "untitled" -> "untitled"

\* ------------------------------------------------------------------- world
World(f) ==
    [projects |-> projects, pageGroups |-> pageGroups, links |-> links,
     blobs |-> blobs, projectCache |-> projectCache,
     pageGroupCache |-> pageGroupCache, isInitialized |-> isInitialized,
     now |-> now, n |-> 0, fail |-> f]

\* the plans of failing external calls: none, or the k-th call of the request
FailPlans == {{}} \cup {{k} : k \in 1..MaxCalls}

R(w, ret, thrown) == [w |-> w, ret |-> ret, thrown |-> thrown]

\* one external call (sql`...`, put, del): counted, and failing when planned
Sql(w) == [w |-> [w EXCEPT !.n = @ + 1], failed |-> (w.n + 1) \in w.fail]

\* did a planned failure hit a call the request made?
Hit(w) == \E k \in w.fail : k <= w.n


\* ------------------------------------------------------------- initialize
\* createTables: three CREATE TABLE IF NOT EXISTS statements, rethrowing
CreateTables(w) ==
    Bind(Sql(w), LAMBDA c1 :
    IF c1.failed THEN R(c1.w, FALSE, TRUE) ELSE
    Bind(Sql(c1.w), LAMBDA c2 :
    IF c2.failed THEN R(c2.w, FALSE, TRUE) ELSE
    Bind(Sql(c2.w), LAMBDA c3 :
    IF c3.failed THEN R(c3.w, FALSE, TRUE) ELSE R(c3.w, TRUE, FALSE))))

InitializeMutEarlyFlag(w0) ==
    Bind(w0, LAMBDA w :
    IF w.isInitialized THEN R(w, TRUE, FALSE) ELSE
    Bind(CreateTables(w), LAMBDA t :
    IF t.thrown THEN R(t.w, FALSE, TRUE) ELSE
    Bind(Sql([t.w EXCEPT !.isInitialized = TRUE]), LAMBDA c :
    IF c.failed THEN R(c.w, FALSE, TRUE) ELSE R(c.w, TRUE, FALSE))))

\* initialize: no-op once isInitialized; else tables, connection test, flag
Initialize(w0) ==
    Bind(w0, LAMBDA w :
    IF w.isInitialized THEN R(w, TRUE, FALSE) ELSE
    Bind(CreateTables(w), LAMBDA t :
    IF t.thrown THEN R(t.w, FALSE, TRUE) ELSE
    Bind(Sql(t.w), LAMBDA c :
    IF c.failed THEN R(c.w, FALSE, TRUE)
    ELSE R([c.w EXCEPT !.isInitialized = TRUE], TRUE, FALSE))))

\* ---------------------------------------------------------------- storage
\* rows of project_page_groups for project p, in table order (array_agg)
RECURSIVE LinkedGroups(_, _)
LinkedGroups(ls, p) ==
    IF ls = <<>> THEN <<>>
    ELSE IF Head(ls).p = p THEN <<Head(ls).g>> \o LinkedGroups(Tail(ls), p)
    ELSE LinkedGroups(Tail(ls), p)

HasLink(ls, p, g) == \E i \in 1..Len(ls) : ls[i].p = p /\ ls[i].g = g

CountLinks(ls, p, g) == Cardinality({i \in 1..Len(ls) : ls[i].p = p /\ ls[i].g = g})

\* ON DELETE CASCADE of the two foreign keys of project_page_groups
CascadeProject(ls, p) == SelectSeq(ls, LAMBDA l : l.p # p)
CascadePageGroup(ls, g) == SelectSeq(ls, LAMBDA l : l.g # g)

InsertLinkMutAlways(ls, p, g, t) == Append(ls, [p |-> p, g |-> g, createdAt |-> t])

\* INSERT ... ON CONFLICT (project_id, page_group_id) DO NOTHING;
\* created_at defaults to NOW()
InsertLink(ls, p, g, t) ==
    IF HasLink(ls, p, g) THEN ls ELSE Append(ls, [p |-> p, g |-> g, createdAt |-> t])

ForeignKeysHoldMutNone(w, p, g) == TRUE

\* FOREIGN KEY (project_id) REFERENCES projects, (page_group_id) REFERENCES page_groups
ForeignKeysHold(w, p, g) == p \in DOMAIN w.projects /\ g \in DOMAIN w.pageGroups

\* COALESCE(${value}, column)
Coalesce(opt, old) == IF IsSome(opt) THEN opt[1] ELSE old

\* the row -> Project mapping shared by getProject and getProjects
RowToProject(w, id) ==
    Bind(w.projects[id], LAMBDA row :
    [id |-> row.id, title |-> row.title, description |-> row.description,
     fileName |-> row.fileName, rootLanguage |-> row.rootLanguage,
     translationLanguages |-> row.translationLanguages,
     pageGroups |-> LinkedGroups(w.links, id),
     createdAt |-> row.createdAt, updatedAt |-> row.updatedAt,
     status |-> row.status])

\* ------------------------------------------------------ page-group methods
LoadPageGroupFromBlob(w0, id) ==
    Bind(Initialize(w0), LAMBDA i :
    IF i.thrown THEN R(i.w, None, TRUE) ELSE
    IF id \in DOMAIN i.w.pageGroupCache
    THEN R(i.w, Some(i.w.pageGroupCache[id]), FALSE) ELSE
    Bind(Sql(i.w), LAMBDA c :
    IF c.failed THEN R(c.w, None, FALSE) ELSE
    IF id \notin DOMAIN c.w.pageGroups THEN R(c.w, None, FALSE) ELSE
    Bind(c.w.pageGroups[id], LAMBDA pg :
    R([c.w EXCEPT !.pageGroupCache = Put(@, id, pg)], Some(pg), FALSE))))

\* `images/${fileName}-${Date.now()}.${ext}`; the blob id is its last segment
BlobName(fileName, t) == [file |-> fileName, at |-> Stamp(t)]

NewPageGroupId(t, rnd) == <<"pagegroup", Stamp(t), rnd>>

CreatePageGroupMutRethrow(w0, data, rnd) ==
    Bind(Initialize(w0), LAMBDA i :
    IF i.thrown THEN R(i.w, None, TRUE) ELSE
    Bind(IF data.imageFile THEN Sql(i.w) ELSE [w |-> i.w, failed |-> FALSE], LAMBDA up :
    IF up.failed THEN R(up.w, None, TRUE) ELSE
    Bind(BlobName(data.fileName, i.w.now), LAMBDA name :
    Bind(IF data.imageFile THEN [up.w EXCEPT !.blobs = @ \cup {name}] ELSE up.w, LAMBDA w1 :
    Bind([id |-> NewPageGroupId(w1.now, rnd), title |-> data.title,
          fileName |-> data.fileName, rootLanguage |-> data.rootLanguage,
          rootText |-> data.rootText,
          translations |-> Coalesce(data.translations, EmptyMap),
          imageUrl |-> IF data.imageFile THEN Some(name) ELSE None,
          imageBlobId |-> IF data.imageFile THEN Some(name) ELSE None,
          status |-> Coalesce(data.status, "draft"),
          createdAt |-> w1.now, updatedAt |-> w1.now], LAMBDA pageGroup :
    Bind(Sql(w1), LAMBDA ins :
    IF ins.failed \/ pageGroup.id \in DOMAIN ins.w.pageGroups
    THEN R(ins.w, None, TRUE) ELSE
    R([ins.w EXCEPT !.pageGroups = Put(@, pageGroup.id, pageGroup),
                    !.pageGroupCache = Put(@, pageGroup.id, pageGroup)],
      Some(pageGroup), FALSE)))))))

CreatePageGroup(w0, data, rnd) ==
    Bind(Initialize(w0), LAMBDA i :
    IF i.thrown THEN R(i.w, None, TRUE) ELSE
    Bind(IF data.imageFile THEN Sql(i.w) ELSE [w |-> i.w, failed |-> TRUE], LAMBDA up :
    Bind(data.imageFile /\ ~up.failed, LAMBDA stored :
    Bind(BlobName(data.fileName, i.w.now), LAMBDA name :
    Bind(IF stored THEN [up.w EXCEPT !.blobs = @ \cup {name}] ELSE up.w, LAMBDA w1 :
    Bind([id |-> NewPageGroupId(w1.now, rnd), title |-> data.title,
          fileName |-> data.fileName, rootLanguage |-> data.rootLanguage,
          rootText |-> data.rootText,
          translations |-> Coalesce(data.translations, EmptyMap),
          imageUrl |-> IF stored THEN Some(name) ELSE None,
          imageBlobId |-> IF stored THEN Some(name) ELSE None,
          status |-> Coalesce(data.status, "draft"),
          createdAt |-> w1.now, updatedAt |-> w1.now], LAMBDA pageGroup :
    Bind(Sql(w1), LAMBDA ins :
    IF ins.failed \/ pageGroup.id \in DOMAIN ins.w.pageGroups
    THEN R(ins.w, None, TRUE) ELSE
    R([ins.w EXCEPT !.pageGroups = Put(@, pageGroup.id, pageGroup),
                    !.pageGroupCache = Put(@, pageGroup.id, pageGroup)],
      Some(pageGroup), FALSE))))))))

\* the legacy Page shape of a PageGroup's root text
RootPage(pg) ==
    [id |-> pg.id, fileName |-> pg.fileName, title |-> <<pg.title>>,
     originalText |-> pg.rootText, editedText |-> pg.rootText,
     language |-> pg.rootLanguage, status |-> pg.status,
     imageUrl |-> pg.imageUrl, rootPageId |-> None,
     createdAt |-> pg.createdAt, updatedAt |-> pg.updatedAt]

\* the synthetic Page of one translation; `id` is the id that was asked for
TranslationPage(pg, id, language) ==
    [id |-> id, fileName |-> pg.fileName \o <<language>>,
     title |-> <<pg.title, language>>,
     originalText |-> pg.translations[language],
     editedText |-> pg.translations[language],
     language |-> language, status |-> pg.status,
     imageUrl |-> None, rootPageId |-> Some(pg.id),
     createdAt |-> pg.createdAt, updatedAt |-> pg.updatedAt]

CreatePage(w0, data, rnd) ==
    LET title == IF IsSome(data.title) THEN data.title[1]
                 ELSE IF IsSome(data.fileName) THEN data.fileName[1]
                 ELSE "Untitled"
        fileName == IF IsSome(data.fileName) THEN <<data.fileName[1]>>
                    ELSE <<slug(Coalesce(data.title, "untitled"))>>
    IN
    Bind(CreatePageGroup(w0,
             [title |-> title, fileName |-> fileName,
              rootLanguage |-> data.language, rootText |-> data.editedText,
              translations |-> Some(EmptyMap),
              status |-> Some(Coalesce(data.status, "approved")),
              imageFile |-> data.imageFile], rnd), LAMBDA r :
    IF r.thrown THEN r ELSE R(r.w, Some(RootPage(r.ret[1])), FALSE))

PageGroupSetClauseMutMerge(row, data, t) ==
    [row EXCEPT !.title = Coalesce(data.title, @),
                !.rootText = Coalesce(data.rootText, @),
                !.translations =
                    IF IsSome(data.translations)
                    THEN [l \in (DOMAIN @) \cup DOMAIN data.translations[1] |->
                             IF l \in DOMAIN data.translations[1]
                             THEN data.translations[1][l] ELSE @[l]]
                    ELSE @,
                !.status = Coalesce(data.status, @),
                !.updatedAt = t]

\* SET title = COALESCE(..), root_text = COALESCE(..), translations =
\*     COALESCE(..), status = COALESCE(..), updated_at = ..
PageGroupSetClause(row, data, t) ==
    [row EXCEPT !.title = Coalesce(data.title, @),
                !.rootText = Coalesce(data.rootText, @),
                !.translations = Coalesce(data.translations, @),
                !.status = Coalesce(data.status, @),
                !.updatedAt = t]

UpdatePageGroup(w0, id, data) ==
    Bind(Initialize(w0), LAMBDA i :
    IF i.thrown THEN R(i.w, None, TRUE) ELSE
    Bind(Sql(i.w), LAMBDA c :
    IF c.failed THEN R(c.w, None, FALSE) ELSE
    Bind(IF id \notin DOMAIN c.w.pageGroups THEN c.w ELSE
         [c.w EXCEPT !.pageGroups[id] = PageGroupSetClause(@, data, c.w.now)],
         LAMBDA w1 :
    LoadPageGroupFromBlob([w1 EXCEPT !.pageGroupCache = Drop(@, id)], id))))

NoPatch == [title |-> None, rootText |-> None, translations |-> None, status |-> None]

DeletePageGroupMutStrict(w0, id) ==
    Bind(Initialize(w0), LAMBDA i :
    IF i.thrown THEN R(i.w, FALSE, TRUE) ELSE
    Bind(LoadPageGroupFromBlob(i.w, id), LAMBDA l :
    Bind(IsSome(l.ret) /\ IsSome(l.ret[1].imageBlobId), LAMBDA hasImage :
    Bind(IF hasImage THEN Sql(l.w) ELSE [w |-> l.w, failed |-> FALSE], LAMBDA d :
    IF d.failed THEN R(d.w, FALSE, FALSE) ELSE
    Bind(IF hasImage
         THEN [d.w EXCEPT !.blobs = @ \ {l.ret[1].imageBlobId[1]}]
         ELSE d.w, LAMBDA w1 :
    Bind(Sql(w1), LAMBDA c :
    IF c.failed THEN R(c.w, FALSE, FALSE) ELSE
    R([c.w EXCEPT !.pageGroups = Drop(@, id),
                  !.links = CascadePageGroup(@, id),
                  !.pageGroupCache = Drop(@, id)], TRUE, FALSE)))))))

DeletePageGroup(w0, id) ==
    Bind(Initialize(w0), LAMBDA i :
    IF i.thrown THEN R(i.w, FALSE, TRUE) ELSE
    Bind(LoadPageGroupFromBlob(i.w, id), LAMBDA l :
    Bind(IsSome(l.ret) /\ IsSome(l.ret[1].imageBlobId), LAMBDA hasImage :
    Bind(IF hasImage THEN Sql(l.w) ELSE [w |-> l.w, failed |-> TRUE], LAMBDA d :
    Bind(IF hasImage /\ ~d.failed
         THEN [d.w EXCEPT !.blobs = @ \ {l.ret[1].imageBlobId[1]}]
         ELSE d.w, LAMBDA w1 :
    Bind(Sql(w1), LAMBDA c :
    IF c.failed THEN R(c.w, FALSE, FALSE) ELSE
    R([c.w EXCEPT !.pageGroups = Drop(@, id),
                  !.links = CascadePageGroup(@, id),
                  !.pageGroupCache = Drop(@, id)], TRUE, FALSE)))))))

AddTranslationToPageGroupMutReplace(w0, pageGroupId, language, translationText) ==
    Bind(LoadPageGroupFromBlob(w0, pageGroupId), LAMBDA l :
    IF l.thrown THEN l ELSE
    IF ~IsSome(l.ret) THEN R(l.w, None, FALSE) ELSE
    Bind([x \in {language} |-> translationText], LAMBDA translations :
    UpdatePageGroup(
        [l.w EXCEPT !.pageGroupCache[pageGroupId].translations = translations],
        pageGroupId, [NoPatch EXCEPT !.translations = Some(translations)])))

AddTranslationToPageGroup(w0, pageGroupId, language, translationText) ==
    Bind(LoadPageGroupFromBlob(w0, pageGroupId), LAMBDA l :
    IF l.thrown THEN l ELSE
    IF ~IsSome(l.ret) THEN R(l.w, None, FALSE) ELSE
    Bind(Put(l.ret[1].translations, language, translationText), LAMBDA translations :
    \* pageGroup is the cached object itself: the assignment changes the cache
    UpdatePageGroup(
        [l.w EXCEPT !.pageGroupCache[pageGroupId].translations = translations],
        pageGroupId, [NoPatch EXCEPT !.translations = Some(translations)])))

LoadPageFromBlob(w0, id) ==
    IF Len(id) > 1 THEN
        LET pageGroupId == <<id[1]>>
            language == id[2]
        IN
        Bind(LoadPageGroupFromBlob(w0, pageGroupId), LAMBDA l :
        IF l.thrown THEN l ELSE
        IF ~IsSome(l.ret) THEN R(l.w, None, FALSE) ELSE
        IF language \notin DOMAIN l.ret[1].translations
           \/ l.ret[1].translations[language] = ""
        THEN R(l.w, None, FALSE)
        ELSE R(l.w, Some(TranslationPage(l.ret[1], id, language)), FALSE))
    ELSE
        Bind(LoadPageGroupFromBlob(w0, id), LAMBDA l :
        IF l.thrown THEN l ELSE
        IF ~IsSome(l.ret) THEN R(l.w, None, FALSE)
        ELSE R(l.w, Some(RootPage(l.ret[1])), FALSE))


\* a field of a Partial<Page> that is given and not empty (if (data.x))
Truthy(o) == IsSome(o) /\ o[1] # ""

NoPagePatch == [title |-> None, editedText |-> None, status |-> None]

\* updatePage: an id with "_" is split and its first two parts are taken as
\* page group id and language; any other id is a page group id
UpdatePage(w0, id, data) ==
    IF Len(id) > 1 THEN
        Bind(<<id[1]>>, LAMBDA pageGroupId :
        Bind(id[2], LAMBDA language :
        Bind(LoadPageGroupFromBlob(w0, pageGroupId), LAMBDA l :
        IF l.thrown THEN l ELSE
        IF ~IsSome(l.ret) THEN R(l.w, None, FALSE) ELSE
        IF ~Truthy(data.editedText) THEN LoadPageFromBlob(l.w, id) ELSE
        Bind(Put(l.ret[1].translations, language, data.editedText[1]),
             LAMBDA translations :
        \* pageGroup is the cached object itself
        Bind(UpdatePageGroup(
                 [l.w EXCEPT !.pageGroupCache[pageGroupId].translations = translations],
                 pageGroupId, [NoPatch EXCEPT !.translations = Some(translations)]),
             LAMBDA u :
        IF u.thrown THEN u ELSE LoadPageFromBlob(u.w, id))))))
    ELSE
        Bind([NoPatch EXCEPT
                 !.title = IF Truthy(data.title) THEN data.title ELSE None,
                 !.rootText = IF Truthy(data.editedText) THEN data.editedText ELSE None,
                 !.status = IF Truthy(data.status) THEN data.status ELSE None],
             LAMBDA updateData :
        Bind(UpdatePageGroup(w0, id, updateData), LAMBDA u :
        IF u.thrown THEN u ELSE LoadPageFromBlob(u.w, id)))

\* deletePage: the same split; the result of updatePageGroup is not looked at
DeletePage(w0, id) ==
    IF Len(id) > 1 THEN
        Bind(<<id[1]>>, LAMBDA pageGroupId :
        Bind(id[2], LAMBDA language :
        Bind(LoadPageGroupFromBlob(w0, pageGroupId), LAMBDA l :
        IF l.thrown THEN R(l.w, FALSE, TRUE) ELSE
        IF ~IsSome(l.ret) THEN R(l.w, FALSE, FALSE) ELSE
        Bind(Drop(l.ret[1].translations, language), LAMBDA translations :
        Bind(UpdatePageGroup(
                 [l.w EXCEPT !.pageGroupCache[pageGroupId].translations = translations],
                 pageGroupId, [NoPatch EXCEPT !.translations = Some(translations)]),
             LAMBDA u :
        IF u.thrown THEN R(u.w, FALSE, TRUE) ELSE R(u.w, TRUE, FALSE))))))
    ELSE DeletePageGroup(w0, id)

\* --------------------------------------------------------- project methods
NewProjectId(t, rnd) == <<"project", Stamp(t), rnd>>

CreateProjectMutNoLanguages(w0, data, rnd) ==
    Bind(Initialize(w0), LAMBDA i :
    IF i.thrown THEN R(i.w, None, TRUE) ELSE
    Bind([id |-> NewProjectId(i.w.now, rnd), title |-> data.title,
          description |-> Coalesce(data.description, ""),
          fileName |-> IF data.fileName # ""
                       THEN <<slug(data.fileName)>>
                       ELSE <<slug(data.title), Stamp(i.w.now)>>,
          rootLanguage |-> data.rootLanguage,
          translationLanguages |-> data.translationLanguages,
          createdAt |-> i.w.now, updatedAt |-> i.w.now,
          status |-> "active"], LAMBDA row :
    Bind([id |-> row.id, title |-> row.title,
          description |-> row.description, fileName |-> row.fileName,
          rootLanguage |-> row.rootLanguage,
          translationLanguages |-> <<>>,
          pageGroups |-> <<>>, createdAt |-> row.createdAt,
          updatedAt |-> row.updatedAt, status |-> row.status], LAMBDA project :
    Bind(Sql(i.w), LAMBDA c :
    IF c.failed \/ row.id \in DOMAIN c.w.projects THEN R(c.w, None, TRUE) ELSE
    R([c.w EXCEPT !.projects = Put(@, row.id, row),
                  !.projectCache = Put(@, row.id, project)],
      Some(project), FALSE)))))

CreateProject(w0, data, rnd) ==
    Bind(Initialize(w0), LAMBDA i :
    IF i.thrown THEN R(i.w, None, TRUE) ELSE
    Bind([id |-> NewProjectId(i.w.now, rnd), title |-> data.title,
          description |-> Coalesce(data.description, ""),
          fileName |-> IF data.fileName # ""
                       THEN <<slug(data.fileName)>>
                       ELSE <<slug(data.title), Stamp(i.w.now)>>,
          rootLanguage |-> data.rootLanguage,
          translationLanguages |-> data.translationLanguages,
          createdAt |-> i.w.now, updatedAt |-> i.w.now,
          status |-> "active"], LAMBDA row :
    Bind([id |-> row.id, title |-> row.title,
          description |-> row.description, fileName |-> row.fileName,
          rootLanguage |-> row.rootLanguage,
          translationLanguages |-> row.translationLanguages,
          pageGroups |-> <<>>, createdAt |-> row.createdAt,
          updatedAt |-> row.updatedAt, status |-> row.status], LAMBDA project :
    Bind(Sql(i.w), LAMBDA c :
    IF c.failed \/ row.id \in DOMAIN c.w.projects THEN R(c.w, None, TRUE) ELSE
    R([c.w EXCEPT !.projects = Put(@, row.id, row),
                  !.projectCache = Put(@, row.id, project)],
      Some(project), FALSE)))))

GetProject(w0, id) ==
    Bind(Initialize(w0), LAMBDA i :
    IF i.thrown THEN R(i.w, None, TRUE) ELSE
    IF id \in DOMAIN i.w.projectCache
    THEN R(i.w, Some(i.w.projectCache[id]), FALSE) ELSE
    Bind(Sql(i.w), LAMBDA c :
    IF c.failed THEN R(c.w, None, FALSE) ELSE
    IF id \notin DOMAIN c.w.projects THEN R(c.w, None, FALSE) ELSE
    Bind(RowToProject(c.w, id), LAMBDA project :
    R([c.w EXCEPT !.projectCache = Put(@, id, project)], Some(project), FALSE))))

\* ORDER BY created_at DESC
RECURSIVE NewestFirst(_, _)
NewestFirst(w, ids) ==
    IF ids = {} THEN <<>> ELSE
    Bind(CHOOSE x \in ids :
             \A y \in ids : w.projects[y].createdAt <= w.projects[x].createdAt,
         LAMBDA top :
    <<RowToProject(w, top)>> \o NewestFirst(w, ids \ {top}))

GetProjects(w0) ==
    Bind(Initialize(w0), LAMBDA i :
    IF i.thrown THEN R(i.w, <<>>, TRUE) ELSE
    Bind(Sql(i.w), LAMBDA c :
    IF c.failed THEN R(c.w, <<>>, FALSE) ELSE
    R([c.w EXCEPT !.projectCache =
          [x \in (DOMAIN @) \cup DOMAIN c.w.projects |->
              IF x \in DOMAIN c.w.projects THEN RowToProject(c.w, x) ELSE @[x]]],
      NewestFirst(c.w, DOMAIN c.w.projects), FALSE)))

ProjectSetClauseMutReset(row, data, t) ==
    [row EXCEPT !.title = Coalesce(data.title, @),
                !.description = Coalesce(data.description, ""),
                !.status = Coalesce(data.status, @),
                !.updatedAt = t]

\* SET title = COALESCE(..), description = COALESCE(..), status = COALESCE(..),
\*     updated_at = ..
ProjectSetClause(row, data, t) ==
    [row EXCEPT !.title = Coalesce(data.title, @),
                !.description = Coalesce(data.description, @),
                !.status = Coalesce(data.status, @),
                !.updatedAt = t]

UpdateProject(w0, id, data) ==
    Bind(Initialize(w0), LAMBDA i :
    IF i.thrown THEN R(i.w, None, TRUE) ELSE
    Bind(Sql(i.w), LAMBDA c :
    IF c.failed THEN R(c.w, None, FALSE) ELSE
    Bind(IF id \notin DOMAIN c.w.projects THEN c.w ELSE
         [c.w EXCEPT !.projects[id] = ProjectSetClause(@, data, c.w.now)],
         LAMBDA w1 :
    GetProject([w1 EXCEPT !.projectCache = Drop(@, id)], id))))

RECURSIVE DeleteEachMutStop(_, _)
DeleteEachMutStop(w, ids) ==
    IF ids = <<>> THEN w ELSE
    Bind(DeletePageGroup(w, Head(ids)), LAMBDA d :
    IF d.ret THEN DeleteEachMutStop(d.w, Tail(ids)) ELSE d.w)

\* for (const pageGroupId of project.pageGroups) await deletePageGroup(..)
RECURSIVE DeleteEach(_, _)
DeleteEach(w, ids) ==
    IF ids = <<>> THEN w ELSE
    Bind(DeletePageGroup(w, Head(ids)), LAMBDA d : DeleteEach(d.w, Tail(ids)))

DeleteProject(w0, id) ==
    Bind(Initialize(w0), LAMBDA i :
    IF i.thrown THEN R(i.w, FALSE, TRUE) ELSE
    Bind(GetProject(i.w, id), LAMBDA g :
    Bind(IF IsSome(g.ret) THEN DeleteEach(g.w, g.ret[1].pageGroups) ELSE g.w,
         LAMBDA w1 :
    Bind(Sql(w1), LAMBDA c :
    IF c.failed THEN R(c.w, FALSE, FALSE) ELSE
    R([c.w EXCEPT !.projects = Drop(@, id),
                  !.links = CascadeProject(@, id),
                  !.projectCache = Drop(@, id)], TRUE, FALSE)))))

\* ------------------------------------------------------------------ linking
\* UPDATE projects SET updated_at = .. WHERE id = ..; then projectCache.delete
TouchProject(w, projectId) ==
    Bind(IF projectId \in DOMAIN w.projects
         THEN [w EXCEPT !.projects[projectId].updatedAt = w.now]
         ELSE w, LAMBDA w2 :
    [w2 EXCEPT !.projectCache = Drop(@, projectId)])

AddPageGroupToProject(w0, projectId, pageGroupId) ==
    Bind(Initialize(w0), LAMBDA i :
    IF i.thrown THEN R(i.w, FALSE, TRUE) ELSE
    Bind(Sql(i.w), LAMBDA ins :
    IF ins.failed \/ ~ForeignKeysHold(ins.w, projectId, pageGroupId)
    THEN R(ins.w, FALSE, FALSE) ELSE
    Bind(Sql([ins.w EXCEPT !.links =
                 InsertLink(@, projectId, pageGroupId, ins.w.now)]), LAMBDA upd :
    IF upd.failed THEN R(upd.w, FALSE, FALSE)
    ELSE R(TouchProject(upd.w, projectId), TRUE, FALSE))))

RemovePageGroupFromProjectMutChecked(w0, projectId, pageGroupId) ==
    Bind(Initialize(w0), LAMBDA i :
    IF i.thrown THEN R(i.w, FALSE, TRUE) ELSE
    Bind(Sql(i.w), LAMBDA del :
    IF del.failed \/ ~HasLink(del.w.links, projectId, pageGroupId)
    THEN R(del.w, FALSE, FALSE) ELSE
    Bind(Sql([del.w EXCEPT !.links =
                 SelectSeq(@, LAMBDA l : ~(l.p = projectId /\ l.g = pageGroupId))]),
         LAMBDA upd :
    IF upd.failed THEN R(upd.w, FALSE, FALSE)
    ELSE R(TouchProject(upd.w, projectId), TRUE, FALSE))))

RemovePageGroupFromProject(w0, projectId, pageGroupId) ==
    Bind(Initialize(w0), LAMBDA i :
    IF i.thrown THEN R(i.w, FALSE, TRUE) ELSE
    Bind(Sql(i.w), LAMBDA del :
    IF del.failed THEN R(del.w, FALSE, FALSE) ELSE
    Bind(Sql([del.w EXCEPT !.links =
                 SelectSeq(@, LAMBDA l : ~(l.p = projectId /\ l.g = pageGroupId))]),
         LAMBDA upd :
    IF upd.failed THEN R(upd.w, FALSE, FALSE)
    ELSE R(TouchProject(upd.w, projectId), TRUE, FALSE))))

\* ------------------------------------------------------- legacy page views
PushMutOverwrite(m, lang, page) == Put(m, lang, <<page>>)

\* if (!pagesByLanguage[lang]) pagesByLanguage[lang] = [];
\* pagesByLanguage[lang].push(page)
Push(m, lang, page) ==
    Put(m, lang, IF lang \in DOMAIN m THEN Append(m[lang], page) ELSE <<page>>)

\* the root entry getProjectWithPages lists for a page group
RootEntry(pg) ==
    [id |-> pg.id, title |-> <<pg.title>>, fileName |-> pg.fileName,
     language |-> pg.rootLanguage, editedText |-> pg.rootText,
     status |-> pg.status, rootPageId |-> None,
     translationPages |-> {pg.id \o <<l>> : l \in DOMAIN pg.translations}]

\* the entry it lists for one translation
TranslationEntry(pg, lang) ==
    [id |-> pg.id \o <<lang>>, title |-> <<pg.title, lang>>,
     fileName |-> pg.fileName \o <<lang>>, language |-> lang,
     editedText |-> pg.translations[lang], status |-> pg.status,
     rootPageId |-> Some(pg.id), translationPages |-> {}]

\* for (const [lang, text] of Object.entries(pg.translations)) push
RECURSIVE PushTranslations(_, _, _)
PushTranslations(m, pg, langs) ==
    IF langs = {} THEN m ELSE
    Bind(CHOOSE l \in langs : TRUE, LAMBDA l :
    PushTranslations(Push(m, l, TranslationEntry(pg, l)), pg, langs \ {l}))

\* for (const pgId of project.pageGroups): load, skip when null, push
RECURSIVE CollectPages(_, _, _)
CollectPages(w, ids, m) ==
    IF ids = <<>> THEN R(w, m, FALSE) ELSE
    Bind(LoadPageGroupFromBlob(w, Head(ids)), LAMBDA l :
    IF l.thrown THEN R(l.w, m, TRUE) ELSE
    IF ~IsSome(l.ret) THEN CollectPages(l.w, Tail(ids), m) ELSE
    Bind(l.ret[1], LAMBDA pg :
    CollectPages(l.w, Tail(ids),
        PushTranslations(Push(m, pg.rootLanguage, RootEntry(pg)), pg,
                         DOMAIN pg.translations))))

GetProjectWithPages(w0, projectId) ==
    Bind(GetProject(w0, projectId), LAMBDA g :
    IF g.thrown THEN R(g.w, None, TRUE) ELSE
    IF ~IsSome(g.ret) THEN R(g.w, None, FALSE) ELSE
    Bind(CollectPages(g.w, g.ret[1].pageGroups, EmptyMap), LAMBDA c :
    IF c.thrown THEN R(c.w, None, TRUE) ELSE
    R(c.w, Some([project |-> g.ret[1], pagesByLanguage |-> c.ret]), FALSE)))

\* ----------------------------------------------------------- route handlers
\* a handler answers the status of the NextResponse it returns; its own
\* try/catch turns anything thrown into 500
\* `result` is what the service method returned to the handler
Response(status, success, result) ==
    [status |-> status, success |-> success, result |-> result]

\* GET /projects
RouteGetProjects(w0) ==
    Bind(GetProjects(w0), LAMBDA r :
    IF r.thrown THEN R(r.w, Response(500, FALSE, <<>>), FALSE)
    ELSE R(r.w, Response(200, TRUE, r.ret), FALSE))

\* GET /projects/{id}
RouteGetProject(w0, id) ==
    Bind(GetProjectWithPages(w0, id), LAMBDA r :
    IF r.thrown THEN R(r.w, Response(500, FALSE, None), FALSE) ELSE
    IF ~IsSome(r.ret) THEN R(r.w, Response(404, FALSE, None), FALSE)
    ELSE R(r.w, Response(200, TRUE, r.ret), FALSE))

\* PUT /projects/{id}
RoutePutProject(w0, id, data) ==
    Bind(UpdateProject(w0, id, data), LAMBDA r :
    IF r.thrown THEN R(r.w, Response(500, FALSE, None), FALSE) ELSE
    IF ~IsSome(r.ret) THEN R(r.w, Response(404, FALSE, None), FALSE)
    ELSE R(r.w, Response(200, TRUE, r.ret), FALSE))

RoutePostProjectMutNoCheck(w0, body, rnd) ==
    Bind(CreateProject(w0,
             [title |-> body.title,
              description |-> Some(Coalesce(body.description, "")),
              fileName |-> "", rootLanguage |-> body.rootLanguage,
              translationLanguages |-> Coalesce(body.translationLanguages, <<>>)],
             rnd), LAMBDA r :
    IF r.thrown THEN R(r.w, Response(500, FALSE, None), FALSE)
    ELSE R(r.w, Response(201, TRUE, r.ret), FALSE))

\* POST /projects: the body's title, rootLanguage and translationLanguages
\* are required; fileName is not passed on
RoutePostProject(w0, body, rnd) ==
    IF \/ body.title = "" \/ body.rootLanguage = ""
       \/ ~IsSome(body.translationLanguages)
       \/ Len(body.translationLanguages[1]) = 0
    THEN R(w0, Response(400, FALSE, None), FALSE) ELSE
    Bind(CreateProject(w0,
             [title |-> body.title,
              description |-> Some(Coalesce(body.description, "")),
              fileName |-> "", rootLanguage |-> body.rootLanguage,
              translationLanguages |-> body.translationLanguages[1]],
             rnd), LAMBDA r :
    IF r.thrown THEN R(r.w, Response(500, FALSE, None), FALSE)
    ELSE R(r.w, Response(201, TRUE, r.ret), FALSE))

\* POST /page-groups/{id}/translations as src/app/api/page-groups/[id]/
\* translations/route.ts has it: the body's language and translationText are
\* required ("" is a missing field)
RoutePostTranslations(w0, id, body) ==
    IF body.language = "" \/ body.translationText = ""
    THEN R(w0, Response(400, FALSE, None), FALSE) ELSE
    Bind(AddTranslationToPageGroup(w0, id, body.language, body.translationText),
         LAMBDA r :
    IF r.thrown THEN R(r.w, Response(500, FALSE, None), FALSE) ELSE
    IF ~IsSome(r.ret) THEN R(r.w, Response(404, FALSE, None), FALSE)
    ELSE R(r.w, Response(200, TRUE, r.ret), FALSE))

\* the same route as the second handler file has it: the body's language and
\* text are required
RoutePostTranslationsText(w0, id, body) ==
    IF body.language = "" \/ body.text = ""
    THEN R(w0, Response(400, FALSE, None), FALSE) ELSE
    Bind(AddTranslationToPageGroup(w0, id, body.language, body.text),
         LAMBDA r :
    IF r.thrown THEN R(r.w, Response(500, FALSE, None), FALSE) ELSE
    IF ~IsSome(r.ret) THEN R(r.w, Response(404, FALSE, None), FALSE)
    ELSE R(r.w, Response(200, TRUE, r.ret), FALSE))

\* the two handler files of the route; which one serves it depends on where
\* the build finds its app directory
TranslationHandlers == {"translationText", "text"}

PostTranslations(handler, w0, id, body) ==
    IF handler = "translationText" THEN RoutePostTranslations(w0, id, body)
    ELSE RoutePostTranslationsText(w0, id, body)

\* DELETE /projects/{id}
RouteDeleteProject(w0, id) ==
    Bind(DeleteProject(w0, id), LAMBDA r :
    IF r.thrown THEN R(r.w, Response(500, FALSE, FALSE), FALSE) ELSE
    IF ~r.ret THEN R(r.w, Response(404, FALSE, r.ret), FALSE)
    ELSE R(r.w, Response(200, TRUE, r.ret), FALSE))

\* DELETE /projects/{id}/pages with body {pageId}
RouteRemovePage(w0, id, pageId) ==
    IF ~IsSome(pageId) THEN R(w0, Response(400, FALSE, FALSE), FALSE) ELSE
    Bind(RemovePageGroupFromProject(w0, id, pageId[1]), LAMBDA r :
    IF r.thrown THEN R(r.w, Response(500, FALSE, FALSE), FALSE) ELSE
    IF ~r.ret THEN R(r.w, Response(400, FALSE, r.ret), FALSE)
    ELSE R(r.w, Response(200, TRUE, r.ret), FALSE))

\* POST /projects/{id}/pages with body {pageId}
RouteAddPage(w0, id, pageId) ==
    IF ~IsSome(pageId) THEN R(w0, Response(400, FALSE, FALSE), FALSE) ELSE
    Bind(AddPageGroupToProject(w0, id, pageId[1]), LAMBDA r :
    IF r.thrown THEN R(r.w, Response(500, FALSE, FALSE), FALSE) ELSE
    IF ~r.ret THEN R(r.w, Response(400, FALSE, r.ret), FALSE)
    ELSE R(r.w, Response(200, TRUE, r.ret), FALSE))

\* POST /pages: a JSON body needs language and editedText, a form needs an
\* image file and gets defaults for the fields it leaves out; the page is
\* created, then added to the project the body names; the answer is 201
\* with the page, whatever addPageToProject returned
RoutePostPage(w0, body, rnd) ==
    IF body.json /\ (~Truthy(body.language) \/ ~Truthy(body.editedText))
    THEN R(w0, Response(400, FALSE, None), FALSE) ELSE
    IF ~body.json /\ ~body.imageFile
    THEN R(w0, Response(400, FALSE, None), FALSE) ELSE
    Bind(IF body.json
         THEN [title |-> body.title, fileName |-> body.fileName,
               language |-> body.language[1], editedText |-> body.editedText[1],
               status |-> body.status, imageFile |-> body.imageFile]
         ELSE [title |-> Some(Coalesce(body.title, "Untitled")),
               fileName |-> Some(Coalesce(body.fileName, "untitled")),
               language |-> Coalesce(body.language, "eng"),
               editedText |-> Coalesce(body.editedText, ""),
               status |-> Some(Coalesce(body.status, "approved")),
               imageFile |-> body.imageFile], LAMBDA pageData :
    Bind(CreatePage(w0, pageData, rnd), LAMBDA c :
    IF c.thrown THEN R(c.w, Response(500, FALSE, None), FALSE) ELSE
    IF ~IsSome(body.projectId)
    THEN R(c.w, Response(201, TRUE, c.ret), FALSE) ELSE
    Bind(AddPageGroupToProject(c.w, body.projectId[1], c.ret[1].id), LAMBDA a :
    IF a.thrown THEN R(a.w, Response(500, FALSE, None), FALSE)
    ELSE R(a.w, Response(201, TRUE, c.ret), FALSE))))


\* ------------------------------------------------------------------ inputs
ProjectInputs ==
    {[title |-> "Test", description |-> None, fileName |-> "",
      rootLanguage |-> "eng", translationLanguages |-> <<"ara">>]}

\* bodies of POST /projects: a complete one, and one for each way of leaving
\* out a required field ("" and None are a missing field)
PostProjectBodies ==
    {[title |-> "Test", description |-> None, rootLanguage |-> "eng",
      translationLanguages |-> Some(<<"ara">>)],
     [title |-> "", description |-> None, rootLanguage |-> "eng",
      translationLanguages |-> Some(<<"ara">>)],
     [title |-> "Test", description |-> None, rootLanguage |-> "",
      translationLanguages |-> Some(<<"ara">>)],
     [title |-> "Test", description |-> None, rootLanguage |-> "eng",
      translationLanguages |-> None],
     [title |-> "Test", description |-> Some("changed"), rootLanguage |-> "eng",
      translationLanguages |-> Some(<<>>)]}

\* Partial<PageGroup> patches given to updatePageGroup
PageGroupPatches ==
    {[NoPatch EXCEPT !.translations = Some(EmptyMap)],
     [NoPatch EXCEPT !.translations = Some([l \in {"fra"} |-> "Bonjour"])],
     [NoPatch EXCEPT !.title = Some("Other")],
     [NoPatch EXCEPT !.rootText = Some("Hola"), !.status = Some("approved")],
     NoPatch}

\* the patches applied to stored page groups
AppliedPageGroupPatches ==
    {[NoPatch EXCEPT !.translations = Some(EmptyMap)],
     [NoPatch EXCEPT !.title = Some("Other")]}

\* bodies of POST /page-groups/{id}/translations: the one the editor sends
\* ({language, text}), the one naming the text translationText, and bodies
\* lacking the language or the text
TranslationBodies ==
    {[language |-> "fra", text |-> "Bonjour", translationText |-> ""],
     [language |-> "fra", text |-> "", translationText |-> "Bonjour"],
     [language |-> "", text |-> "Bonjour", translationText |-> "Bonjour"],
     [language |-> "fra", text |-> "", translationText |-> ""]}

\* Partial<Page> bodies given to updatePage
PagePatches == {[NoPagePatch EXCEPT !.editedText = Some("Changed")]}

ProjectPatches ==
    {[title |-> None, description |-> None, status |-> None],
     [title |-> Some("Other"), description |-> None, status |-> None],
     [title |-> None, description |-> Some("changed"), status |-> None],
     [title |-> None, description |-> None, status |-> Some("archived")]}

PageGroupInputs ==
    {[title |-> "Test", fileName |-> <<"my-file">>, rootLanguage |-> "eng",
      rootText |-> "Hello", translations |-> None, status |-> None,
      imageFile |-> FALSE],
     [title |-> "Test", fileName |-> <<"my-file">>, rootLanguage |-> "eng",
      rootText |-> "Hello", translations |-> Some([l \in {"spa"} |-> "Hola"]),
      status |-> None, imageFile |-> TRUE]}

PageInputs ==
    {[title |-> None, fileName |-> Some("scan"), language |-> "eng",
      editedText |-> "Hello", status |-> None, imageFile |-> FALSE],
     [title |-> Some("Test"), fileName |-> None, language |-> "spa",
      editedText |-> "Hola", status |-> None, imageFile |-> FALSE]}

TranslationLangs == {"spa", "fra"}
TranslationTexts == {"Bonjour"}

\* the ids a caller can name: those it has seen, and ones that never existed
ProjectIdsIn == (DOMAIN projects) \cup (DOMAIN projectCache) \cup UnknownIds
PageGroupIdsIn == (DOMAIN pageGroups) \cup (DOMAIN pageGroupCache) \cup UnknownIds
PageIdsIn == PageGroupIdsIn \cup {g \o <<l>> : g \in PageGroupIdsIn, l \in TranslationLangs}

\* ----------------------------------------------------------------- actions
Idle == [op |-> "none", ok |-> TRUE, keep |-> FALSE]

\* new Date() / Date.now() as read by a method that writes: later than every
\* time the program has stored so far
Tick(w) == [w EXCEPT !.now = @ + 1]

Stored(w) == <<w.projects, w.pageGroups, w.links, w.blobs,
               w.projectCache, w.pageGroupCache, w.isInitialized>>

\* The state after a request: storage, caches and flag as the method left
\* them.  `now` is the latest time the program has observed and kept, and
\* `last` the latest request that left a trace: a request that changed
\* neither storage nor a cache nor the flag leaves the state as it was
\* (unless its record asks to be kept).
Commit(w0, r, rec) ==
    /\ projects' = r.w.projects
    /\ pageGroups' = r.w.pageGroups
    /\ links' = r.w.links
    /\ blobs' = r.w.blobs
    /\ projectCache' = r.w.projectCache
    /\ pageGroupCache' = r.w.pageGroupCache
    /\ isInitialized' = r.w.isInitialized
    /\ now' = IF Stored(r.w) = Stored(w0) THEN now ELSE r.w.now
    /\ last' = IF Stored(r.w) = Stored(w0) /\ ~rec.keep THEN last ELSE rec

\* what `last` keeps of a request: its name and whether it succeeded
Req(op, ok) == [op |-> op, ok |-> ok, keep |-> FALSE]

\* createPage is kept with what it was given and the id it returned
PageReq(data, r) ==
    [op |-> "createPage", ok |-> ~r.thrown, keep |-> FALSE,
     editedText |-> data.editedText, language |-> data.language,
     id |-> IF r.thrown THEN None ELSE r.ret[1].id]

\* DELETE /projects/{id} is kept even when it changed nothing, with whether
\* the project was stored and cached, the page groups linked to it, what
\* deleteProject returned and the status
DeleteReq(id, r) ==
    [op |-> "DELETE /projects/{id}", ok |-> r.ret.status = 200, keep |-> TRUE,
     existed |-> id \in DOMAIN projects, hit |-> Hit(r.w),
     cached |-> id \in DOMAIN projectCache,
     linked |-> {g \in DOMAIN pageGroups : HasLink(links, id, g)},
     result |-> r.ret.result, status |-> r.ret.status]

\* deletePageGroup is kept with whether a storage call of it failed and
\* whether the page group was in the cache when it was called
DeletePageGroupReq(id, r) ==
    [op |-> "deletePageGroup", ok |-> r.ret, keep |-> FALSE,
     hit |-> Hit(r.w), cached |-> id \in DOMAIN pageGroupCache]

\* the two link routes are kept even when they changed nothing, with what
\* they were asked: was the pair linked, do both rows exist
LinkReq(op, ok, p, g) ==
    [op |-> op, ok |-> ok, keep |-> TRUE, wasLinked |-> HasLink(links, p, g),
     rowsExist |-> p \in DOMAIN projects /\ g \in DOMAIN pageGroups]

Quiet == inflight = EmptyMap

Init ==
    /\ projects = EmptyMap
    /\ pageGroups = EmptyMap
    /\ links = <<>>
    /\ blobs = {}
    /\ projectCache = EmptyMap
    /\ pageGroupCache = EmptyMap
    /\ isInitialized = FALSE
    /\ now = 0
    /\ last = Idle
    /\ inflight = EmptyMap
    /\ sessionPages = <<>>

DoCreateProject ==
    /\ Quiet /\ now < MaxClock
    /\ Cardinality(DOMAIN projects) < MaxProjects
    /\ \E f \in FailPlans, data \in ProjectInputs, rnd \in Rands :
         \E r \in {CreateProject(Tick(World(f)), data, rnd)} :
            Commit(Tick(World(f)), r, Req("createProject", ~r.thrown))
    /\ UNCHANGED <<inflight, sessionPages>>

\* POST /projects is kept even when it changed nothing, with its status
PostProjectReq(r) ==
    [op |-> "POST /projects", ok |-> r.ret.status = 201, keep |-> TRUE,
     status |-> r.ret.status]

DoPostProject ==
    /\ Quiet /\ now < MaxClock
    /\ Cardinality(DOMAIN projects) < MaxProjects
    /\ \E f \in FailPlans, body \in PostProjectBodies, rnd \in Rands :
         \E r \in {RoutePostProject(Tick(World(f)), body, rnd)} :
            Commit(Tick(World(f)), r, PostProjectReq(r))
    /\ UNCHANGED <<inflight, sessionPages>>

DoGetProject ==
    /\ Quiet
    /\ \E f \in FailPlans, id \in ProjectIdsIn :
         \E r \in {GetProject(World(f), id)} :
            Commit(World(f), r, Req("getProject", IsSome(r.ret)))
    /\ UNCHANGED <<inflight, sessionPages>>

DoGetProjects ==
    /\ Quiet
    /\ \E f \in FailPlans :
         \E r \in {GetProjects(World(f))} :
            Commit(World(f), r, Req("getProjects", ~r.thrown /\ ~Hit(r.w)))
    /\ UNCHANGED <<inflight, sessionPages>>

DoUpdateProject ==
    /\ Quiet /\ now < MaxClock
    /\ \E f \in FailPlans, id \in ProjectIdsIn, data \in ProjectPatches :
         \E r \in {UpdateProject(Tick(World(f)), id, data)} :
            Commit(Tick(World(f)), r, Req("updateProject", IsSome(r.ret)))
    /\ UNCHANGED <<inflight, sessionPages>>

DoDeleteProject ==
    /\ Quiet
    /\ \E f \in FailPlans, id \in ProjectIdsIn :
         \E r \in {RouteDeleteProject(World(f), id)} :
            Commit(World(f), r, DeleteReq(id, r))
    /\ UNCHANGED <<inflight, sessionPages>>

DoCreatePageGroup ==
    /\ Quiet /\ now < MaxClock
    /\ Cardinality(DOMAIN pageGroups) < MaxPageGroups
    /\ \E f \in FailPlans, data \in PageGroupInputs, rnd \in Rands :
         \E r \in {CreatePageGroup(Tick(World(f)), data, rnd)} :
            Commit(Tick(World(f)), r, Req("createPageGroup", ~r.thrown))
    /\ UNCHANGED <<inflight, sessionPages>>

DoCreatePage ==
    /\ Quiet /\ now < MaxClock
    /\ Cardinality(DOMAIN pageGroups) < MaxPageGroups
    /\ \E f \in FailPlans, data \in PageInputs, rnd \in Rands :
         \E r \in {CreatePage(Tick(World(f)), data, rnd)} :
            Commit(Tick(World(f)), r, PageReq(data, r))
    /\ UNCHANGED <<inflight, sessionPages>>

DoUpdatePageGroup ==
    /\ Quiet /\ now < MaxClock
    /\ \E f \in FailPlans, id \in PageGroupIdsIn, data \in AppliedPageGroupPatches :
         \E r \in {UpdatePageGroup(Tick(World(f)), id, data)} :
            Commit(Tick(World(f)), r, Req("updatePageGroup", IsSome(r.ret)))
    /\ UNCHANGED <<inflight, sessionPages>>

\* POST /page-groups/{id}/translations is kept even when it changed nothing,
\* with the handler that served it and its status
PostTranslationsReq(handler, r) ==
    [op |-> "POST /page-groups/{id}/translations", ok |-> r.ret.status = 200,
     keep |-> TRUE, handler |-> handler, status |-> r.ret.status]

DoPostTranslations ==
    /\ Quiet /\ now < MaxClock
    /\ \E f \in FailPlans, h \in TranslationHandlers, id \in PageGroupIdsIn,
          body \in TranslationBodies :
         \E r \in {PostTranslations(h, Tick(World(f)), id, body)} :
            Commit(Tick(World(f)), r, PostTranslationsReq(h, r))
    /\ UNCHANGED <<inflight, sessionPages>>

DoDeletePageGroup ==
    /\ Quiet
    /\ \E f \in FailPlans, id \in PageGroupIdsIn :
         \E r \in {DeletePageGroup(World(f), id)} :
            Commit(World(f), r, DeletePageGroupReq(id, r))
    /\ UNCHANGED <<inflight, sessionPages>>

DoLoadPageGroup ==
    /\ Quiet
    /\ \E f \in FailPlans, id \in PageGroupIdsIn :
         \E r \in {LoadPageGroupFromBlob(World(f), id)} :
            Commit(World(f), r, Req("loadPageGroupFromBlob", IsSome(r.ret)))
    /\ UNCHANGED <<inflight, sessionPages>>

DoLoadPage ==
    /\ Quiet
    /\ \E f \in FailPlans, id \in PageIdsIn :
         \E r \in {LoadPageFromBlob(World(f), id)} :
            Commit(World(f), r, Req("loadPageFromBlob", IsSome(r.ret)))
    /\ UNCHANGED <<inflight, sessionPages>>

DoAddTranslation ==
    /\ Quiet /\ now < MaxClock
    /\ \E f \in FailPlans, id \in PageGroupIdsIn, l \in TranslationLangs,
          t \in TranslationTexts :
         \E r \in {AddTranslationToPageGroup(Tick(World(f)), id, l, t)} :
            Commit(Tick(World(f)), r, Req("addTranslationToPageGroup", IsSome(r.ret)))
    /\ UNCHANGED <<inflight, sessionPages>>

DoGetProjectWithPages ==
    /\ Quiet
    /\ \E f \in FailPlans, id \in ProjectIdsIn :
         \E r \in {GetProjectWithPages(World(f), id)} :
            Commit(World(f), r, Req("getProjectWithPages", IsSome(r.ret)))
    /\ UNCHANGED <<inflight, sessionPages>>

DoAddPage ==
    /\ Quiet /\ now < MaxClock
    /\ \E f \in FailPlans, id \in ProjectIdsIn, g \in PageGroupIdsIn :
         \E r \in {RouteAddPage(Tick(World(f)), id, Some(g))} :
            Commit(Tick(World(f)), r, LinkReq("POST /projects/{id}/pages", r.ret.status = 200, id, g))
    /\ UNCHANGED <<inflight, sessionPages>>

DoRemovePage ==
    /\ Quiet /\ now < MaxClock
    /\ \E f \in FailPlans, id \in ProjectIdsIn, g \in PageGroupIdsIn :
         \E r \in {RouteRemovePage(Tick(World(f)), id, Some(g))} :
            Commit(Tick(World(f)), r, LinkReq("DELETE /projects/{id}/pages", r.ret.status = 200, id, g))
    /\ UNCHANGED <<inflight, sessionPages>>

\* the project side of the service: projects, links and the page groups
\* they own
Next ==
    \/ DoCreateProject
    \/ DoGetProject
    \/ DoGetProjects
    \/ DoUpdateProject
    \/ DoDeleteProject
    \/ DoCreatePageGroup
    \/ DoDeletePageGroup
    \/ DoLoadPageGroup
    \/ DoAddPage
    \/ DoRemovePage

Spec == Init /\ [][Next]_vars

\* the life of a project: created by the service or through POST /projects,
\* given page groups, read alone and with its pages, and deleted
NextLifecycle ==
    \/ DoCreateProject
    \/ DoPostProject
    \/ DoCreatePageGroup
    \/ DoAddPage
    \/ DoGetProject
    \/ DoGetProjectWithPages
    \/ DoDeleteProject

SpecLifecycle == Init /\ [][NextLifecycle]_vars

\* updatePage and deletePage are kept even when they changed nothing, with
\* the id they were given and whether they succeeded
PageOpReq(op, id, ok) == [op |-> op, ok |-> ok, keep |-> TRUE, id |-> id]

DoUpdatePage ==
    /\ Quiet /\ now < MaxClock
    /\ \E f \in FailPlans, id \in PageIdsIn, data \in PagePatches :
         \E r \in {UpdatePage(Tick(World(f)), id, data)} :
            Commit(Tick(World(f)), r, PageOpReq("updatePage", id, IsSome(r.ret)))
    /\ UNCHANGED <<inflight, sessionPages>>

DoDeletePage ==
    /\ Quiet /\ now < MaxClock
    /\ \E f \in FailPlans, id \in PageIdsIn :
         \E r \in {DeletePage(Tick(World(f)), id)} :
            Commit(Tick(World(f)), r, PageOpReq("deletePage", id, r.ret))
    /\ UNCHANGED <<inflight, sessionPages>>

\* the legacy page methods over page groups created by the service
NextLegacyPages ==
    \/ DoCreatePageGroup
    \/ DoLoadPage
    \/ DoUpdatePage
    \/ DoDeletePage

SpecLegacyPages == Init /\ [][NextLegacyPages]_vars

\* the page side: page groups, their translations and the legacy page shim.
\* No method here reads projects or links, and the project side changes
\* page groups only through deletePageGroup.
NextPages ==
    \/ DoCreatePageGroup
    \/ DoCreatePage
    \/ DoDeletePageGroup
    \/ DoLoadPageGroup
    \/ DoLoadPage
    \/ DoAddTranslation

SpecPages == Init /\ [][NextPages]_vars

\* page groups as they are edited: created, patched, given translations and
\* read back
NextPageGroupEdits ==
    \/ DoCreatePageGroup
    \/ DoUpdatePageGroup
    \/ DoAddTranslation
    \/ DoLoadPageGroup

SpecPageGroupEdits == Init /\ [][NextPageGroupEdits]_vars

\* the translations route over page groups that are created, read and deleted
NextPostTranslations ==
    \/ DoCreatePageGroup
    \/ DoPostTranslations
    \/ DoLoadPageGroup
    \/ DoDeletePageGroup

SpecPostTranslations == Init /\ [][NextPostTranslations]_vars


\* ------------------------------------------------ requests that interleave
\* getProject / loadPageGroupFromBlob and updateProject / updatePageGroup one
\* await at a time.  A request in flight is [kind, op, pc, id, data, at, rows]:
\*   "update"      the UPDATE has been sent with updated_at = at
\*   "invalidate"  the UPDATE has run; the method resumes at cache.delete
\*   "check"       the read resumes at cache.has(id)
\*   "select"      the SELECT has been sent
\*   "fill"        the SELECT has run and returned rows; the method resumes
\*                 at cache.set
MaxRequests == 2
Slots == 1..MaxRequests

Kinds == {"project", "pageGroup"}

ConcPatches(kind) ==
    IF kind = "project"
    THEN {[title |-> Some("Other"), description |-> None, status |-> None],
          [title |-> None, description |-> Some("changed"), status |-> None]}
    ELSE {[NoPatch EXCEPT !.rootText = Some("Hola")],
          [NoPatch EXCEPT !.title = Some("Other")]}

IdsOf(kind) == IF kind = "project" THEN DOMAIN projects ELSE DOMAIN pageGroups
CacheOf(kind) == IF kind = "project" THEN projectCache ELSE pageGroupCache

\* what the SELECT of the read returns when it runs now
SelectNow(kind, id) ==
    IF id \notin IdsOf(kind) THEN None
    ELSE IF kind = "project" THEN Some(RowToProject(World({}), id))
    ELSE Some(pageGroups[id])

WriteInFlight == \E s \in DOMAIN inflight : inflight[s].op = "update"

Finish(s, op, ok) ==
    /\ inflight' = Drop(inflight, s)
    /\ last' = Req(op, ok)

ReadName(kind) == IF kind = "project" THEN "getProject" ELSE "loadPageGroupFromBlob"

StartRead ==
    /\ isInitialized
    /\ \E s \in Slots \ DOMAIN inflight, kind \in Kinds :
       \E id \in IdsOf(kind) :
          inflight' = Put(inflight, s,
              [kind |-> kind, op |-> "read", pc |-> "check", id |-> id,
               data |-> NoPatch, at |-> now, rows |-> None])
    /\ UNCHANGED <<projects, pageGroups, links, blobs, sessionPages, projectCache,
                   pageGroupCache, isInitialized, now, last>>

StartUpdate ==
    /\ isInitialized /\ now < MaxClock
    /\ \E s \in Slots \ DOMAIN inflight, kind \in Kinds :
       \E id \in IdsOf(kind), data \in ConcPatches(kind) :
          inflight' = Put(inflight, s,
              [kind |-> kind, op |-> "update", pc |-> "update", id |-> id,
               data |-> data, at |-> now + 1, rows |-> None])
    /\ now' = now + 1
    /\ UNCHANGED <<projects, pageGroups, links, blobs, sessionPages, projectCache,
                   pageGroupCache, isInitialized, last>>

\* the database runs the UPDATE
DbUpdate ==
    \E s \in DOMAIN inflight :
       LET q == inflight[s] IN
       /\ q.pc = "update"
       /\ IF q.kind = "project"
          THEN /\ projects' = IF q.id \in DOMAIN projects
                              THEN [projects EXCEPT ![q.id] = ProjectSetClause(@, q.data, q.at)]
                              ELSE projects
               /\ UNCHANGED pageGroups
          ELSE /\ pageGroups' = IF q.id \in DOMAIN pageGroups
                                THEN [pageGroups EXCEPT ![q.id] = PageGroupSetClause(@, q.data, q.at)]
                                ELSE pageGroups
               /\ UNCHANGED projects
       /\ inflight' = [inflight EXCEPT ![s].pc = "invalidate"]
       /\ UNCHANGED <<links, blobs, sessionPages, projectCache, pageGroupCache,
                      isInitialized, now, last>>

\* the update resumes: cache.delete(id), then the reload
Invalidate ==
    \E s \in DOMAIN inflight :
       LET q == inflight[s] IN
       /\ q.pc = "invalidate"
       /\ IF q.kind = "project"
          THEN projectCache' = Drop(projectCache, q.id) /\ UNCHANGED pageGroupCache
          ELSE pageGroupCache' = Drop(pageGroupCache, q.id) /\ UNCHANGED projectCache
       /\ inflight' = [inflight EXCEPT ![s].pc = "check"]
       /\ UNCHANGED <<projects, pageGroups, links, blobs, sessionPages, isInitialized, now, last>>

\* the read looks at the cache: a hit returns, a miss sends the SELECT
CheckCache ==
    \E s \in DOMAIN inflight :
       LET q == inflight[s] IN
       /\ q.pc = "check"
       /\ IF q.id \in DOMAIN CacheOf(q.kind)
          THEN Finish(s, IF q.op = "read" THEN ReadName(q.kind) ELSE "update", TRUE)
          ELSE /\ inflight' = [inflight EXCEPT ![s].pc = "select"]
               /\ UNCHANGED last
       /\ UNCHANGED <<projects, pageGroups, links, blobs, sessionPages, projectCache,
                      pageGroupCache, isInitialized, now>>

\* the database runs the SELECT
DbSelect ==
    \E s \in DOMAIN inflight :
       LET q == inflight[s] IN
       /\ q.pc = "select"
       /\ inflight' = [inflight EXCEPT ![s].pc = "fill",
                                       ![s].rows = SelectNow(q.kind, q.id)]
       /\ UNCHANGED <<projects, pageGroups, links, blobs, sessionPages, projectCache,
                      pageGroupCache, isInitialized, now, last>>

\* what the read puts in the cache: the rows its SELECT returned
FillCache(kind, id, rows) == rows

\* the read resumes with its rows: none is null, else cache.set and return
Fill ==
    \E s \in DOMAIN inflight :
       LET q == inflight[s]
           v == FillCache(q.kind, q.id, q.rows)
       IN
       /\ q.pc = "fill"
       /\ IF IsSome(v)
          THEN IF q.kind = "project"
               THEN projectCache' = Put(projectCache, q.id, v[1]) /\ UNCHANGED pageGroupCache
               ELSE pageGroupCache' = Put(pageGroupCache, q.id, v[1]) /\ UNCHANGED projectCache
          ELSE UNCHANGED <<projectCache, pageGroupCache>>
       /\ Finish(s, IF q.op = "read" THEN ReadName(q.kind) ELSE "update", IsSome(v))
       /\ UNCHANGED <<projects, pageGroups, links, blobs, sessionPages, isInitialized, now>>

NextConc ==
    \/ DoCreateProject
    \/ DoCreatePageGroup
    \/ StartRead
    \/ StartUpdate
    \/ DbUpdate
    \/ Invalidate
    \/ CheckCache
    \/ DbSelect
    \/ Fill

SpecConc == Init /\ [][NextConc]_vars

\* ------------------------------------- addTranslationToPageGroup, interleaved
\* A request in flight is [pc, id, language, text, translations, shared,
\* payload, at, rows, result].  `translations` is what the PageGroup object
\* the request holds shows, `shared` whether that object is the one the
\* cache holds for the id (a request that hits the cache writes into it):
\*   "init"        initialize has to create the tables first
\*   "check"       loadPageGroupFromBlob resumes at cache.has(id)
\*   "select"      the SELECT has been sent
\*   "fill"        the SELECT has returned; the method resumes at cache.set
\*                 and the caller sets translations[language]
\*   "send"        updatePageGroup waits in delay(100) before it builds the
\*                 UPDATE from the object's translations
\*   "update"      the UPDATE has been sent
\*   "invalidate"  the UPDATE has run; the method resumes at cache.delete and
\*                 sends the SELECT of the reload
\*   "reselect"    the SELECT of the reload has been sent
\*   "refill"      it has returned; the reload resumes at cache.set
\*   "done"        the request has returned `result`
TrRest == <<projects, links, blobs, projectCache, sessionPages>>

\* the other requests whose object is the cache's see what is written to it
SeenBySharers(reqs, s, id, translations) ==
    [x \in DOMAIN reqs |->
        IF x # s /\ reqs[x].id = id /\ reqs[x].shared
        THEN [reqs[x] EXCEPT !.translations = translations]
        ELSE reqs[x]]

\* a cache entry that is deleted or replaced is no longer anybody's object
Unshared(reqs, id) ==
    [x \in DOMAIN reqs |->
        IF reqs[x].id = id THEN [reqs[x] EXCEPT !.shared = FALSE] ELSE reqs[x]]

\* a new server process: the module-level caches and flag start afresh, the
\* database keeps its rows
Restart ==
    /\ Quiet
    /\ isInitialized
    /\ projectCache' = EmptyMap
    /\ pageGroupCache' = EmptyMap
    /\ isInitialized' = FALSE
    /\ last' = [op |-> "restart", ok |-> TRUE, keep |-> TRUE]
    /\ UNCHANGED <<projects, pageGroups, links, blobs, sessionPages, now, inflight>>

TrStart ==
    /\ \E s \in Slots \ DOMAIN inflight, id \in DOMAIN pageGroups,
          l \in TranslationLangs, t \in TranslationTexts :
          inflight' = Put(inflight, s,
              [pc |-> IF isInitialized THEN "check" ELSE "init", id |-> id,
               language |-> l, text |-> t, translations |-> EmptyMap,
               shared |-> FALSE, payload |-> EmptyMap, at |-> 0,
               rows |-> None, result |-> None])
    /\ UNCHANGED <<pageGroups, pageGroupCache, isInitialized, now, last>>
    /\ UNCHANGED TrRest

TrInit ==
    /\ \E s \in DOMAIN inflight :
          /\ inflight[s].pc = "init"
          /\ inflight' = [inflight EXCEPT ![s].pc = "check"]
    /\ isInitialized' = TRUE
    /\ UNCHANGED <<pageGroups, pageGroupCache, now, last>>
    /\ UNCHANGED TrRest

\* a hit returns the cached object and the caller writes into it
TrCheck ==
    /\ \E s \in DOMAIN inflight :
       LET q == inflight[s] IN
       /\ q.pc = "check"
       /\ IF q.id \in DOMAIN pageGroupCache
          THEN \E translations \in {Put(pageGroupCache[q.id].translations,
                                        q.language, q.text)} :
               /\ pageGroupCache' =
                      [pageGroupCache EXCEPT ![q.id].translations = translations]
               /\ inflight' =
                      [SeenBySharers(inflight, s, q.id, translations) EXCEPT
                          ![s].translations = translations,
                          ![s].shared = TRUE, ![s].pc = "send"]
          ELSE /\ inflight' = [inflight EXCEPT ![s].pc = "select"]
               /\ UNCHANGED pageGroupCache
    /\ UNCHANGED <<pageGroups, isInitialized, now, last>>
    /\ UNCHANGED TrRest

\* the database runs the SELECT of the load or of the reload
TrSelect ==
    /\ \E s \in DOMAIN inflight :
       LET q == inflight[s] IN
       /\ q.pc \in {"select", "reselect"}
       /\ inflight' =
              [inflight EXCEPT
                  ![s].pc = IF q.pc = "select" THEN "fill" ELSE "refill",
                  ![s].rows = IF q.id \in DOMAIN pageGroups
                              THEN Some(pageGroups[q.id]) ELSE None]
    /\ UNCHANGED <<pageGroups, pageGroupCache, isInitialized, now, last>>
    /\ UNCHANGED TrRest

\* the load resumes: cache.set of a new object, into which the caller writes
TrFill ==
    /\ \E s \in DOMAIN inflight :
       LET q == inflight[s] IN
       /\ q.pc = "fill"
       /\ IF ~IsSome(q.rows)
          THEN /\ inflight' = [inflight EXCEPT ![s].pc = "done"]
               /\ UNCHANGED pageGroupCache
          ELSE \E translations \in {Put(q.rows[1].translations, q.language, q.text)} :
               /\ pageGroupCache' =
                      Put(pageGroupCache, q.id,
                          [q.rows[1] EXCEPT !.translations = translations])
               /\ inflight' =
                      [Unshared(inflight, q.id) EXCEPT
                          ![s].translations = translations,
                          ![s].shared = TRUE, ![s].pc = "send"]
    /\ UNCHANGED <<pageGroups, isInitialized, now, last>>
    /\ UNCHANGED TrRest

\* updatePageGroup builds its UPDATE from what the object shows now
TrSend ==
    /\ now < MaxClock
    /\ \E s \in DOMAIN inflight :
          /\ inflight[s].pc = "send"
          /\ inflight' = [inflight EXCEPT ![s].pc = "update",
                                          ![s].payload = inflight[s].translations,
                                          ![s].at = now + 1]
    /\ now' = now + 1
    /\ UNCHANGED <<pageGroups, pageGroupCache, isInitialized, last>>
    /\ UNCHANGED TrRest

TrDbUpdate ==
    /\ \E s \in DOMAIN inflight :
       LET q == inflight[s] IN
       /\ q.pc = "update"
       /\ pageGroups' =
              IF q.id \in DOMAIN pageGroups
              THEN [pageGroups EXCEPT ![q.id] =
                       PageGroupSetClause(@,
                           [NoPatch EXCEPT !.translations = Some(q.payload)], q.at)]
              ELSE pageGroups
       /\ inflight' = [inflight EXCEPT ![s].pc = "invalidate"]
    /\ UNCHANGED <<pageGroupCache, isInitialized, now, last>>
    /\ UNCHANGED TrRest

TrInvalidate ==
    /\ \E s \in DOMAIN inflight :
       LET q == inflight[s] IN
       /\ q.pc = "invalidate"
       /\ pageGroupCache' = Drop(pageGroupCache, q.id)
       /\ inflight' = [Unshared(inflight, q.id) EXCEPT ![s].pc = "reselect"]
    /\ UNCHANGED <<pageGroups, isInitialized, now, last>>
    /\ UNCHANGED TrRest

\* the reload resumes: cache.set of the rows it read, which it returns
TrRefill ==
    /\ \E s \in DOMAIN inflight :
       LET q == inflight[s] IN
       /\ q.pc = "refill"
       /\ IF IsSome(q.rows)
          THEN pageGroupCache' = Put(pageGroupCache, q.id, q.rows[1])
          ELSE UNCHANGED pageGroupCache
       /\ inflight' = [Unshared(inflight, q.id) EXCEPT
                          ![s].pc = "done", ![s].result = q.rows]
       /\ last' = Req("addTranslationToPageGroup", IsSome(q.rows))
    /\ UNCHANGED <<pageGroups, isInitialized, now>>
    /\ UNCHANGED TrRest

NextConcTranslations ==
    \/ DoCreatePageGroup
    \/ Restart
    \/ TrStart
    \/ TrInit
    \/ TrCheck
    \/ TrSelect
    \/ TrFill
    \/ TrSend
    \/ TrDbUpdate
    \/ TrInvalidate
    \/ TrRefill

SpecConcTranslations == Init /\ [][NextConcTranslations]_vars

\* --------------------------------------------------------------- initialize
\* the storage calls of one initialize: three CREATE TABLE and SELECT NOW()
InitializeCalls == 4

\* none of them fails, or the k-th does
InitializePlans == {{}} \cup {{k} : k \in 1..InitializeCalls}

\* what a call left behind and whether it threw
Outcome(r) == [w |-> r.w, thrown |-> r.thrown]

\* every public method of ProjectService, on every input the model draws
ServiceOutcomes(w) ==
    {Outcome(GetProjects(w))}
    \cup {Outcome(GetProject(w, id)) : id \in ProjectIdsIn}
    \cup {Outcome(GetProjectWithPages(w, id)) : id \in ProjectIdsIn}
    \cup {Outcome(CreateProject(w, data, rnd)) : data \in ProjectInputs, rnd \in Rands}
    \cup {Outcome(UpdateProject(w, id, data)) : id \in ProjectIdsIn, data \in ProjectPatches}
    \cup {Outcome(DeleteProject(w, id)) : id \in ProjectIdsIn}
    \cup {Outcome(CreatePageGroup(w, data, rnd)) : data \in PageGroupInputs, rnd \in Rands}
    \cup {Outcome(CreatePage(w, data, rnd)) : data \in PageInputs, rnd \in Rands}
    \cup {Outcome(LoadPageGroupFromBlob(w, id)) : id \in PageGroupIdsIn}
    \cup {Outcome(UpdatePageGroup(w, id, data)) : id \in PageGroupIdsIn, data \in PageGroupPatches}
    \cup {Outcome(DeletePageGroup(w, id)) : id \in PageGroupIdsIn}
    \cup {Outcome(AddPageGroupToProject(w, p, g)) : p \in ProjectIdsIn, g \in PageGroupIdsIn}
    \cup {Outcome(RemovePageGroupFromProject(w, p, g)) : p \in ProjectIdsIn, g \in PageGroupIdsIn}
    \cup {Outcome(AddTranslationToPageGroup(w, id, l, t)) :
             id \in PageGroupIdsIn, l \in TranslationLangs, t \in TranslationTexts}
    \cup {Outcome(LoadPageFromBlob(w, id)) : id \in PageIdsIn}
    \cup {Outcome(UpdatePage(w, id, data)) : id \in PageIdsIn, data \in PagePatches}
    \cup {Outcome(DeletePage(w, id)) : id \in PageIdsIn}

InitializeReq(r) ==
    [op |-> "initialize", ok |-> ~r.thrown, keep |-> TRUE,
     retry |-> (last.op = "initialize" /\ ~last.ok)]

\* GET /api/init and the call at server startup
DoInitialize ==
    /\ Quiet
    /\ \E f \in InitializePlans :
         \E r \in {Initialize(World(f))} :
            Commit(World(f), r, InitializeReq(r))
    /\ UNCHANGED <<inflight, sessionPages>>

NextInitialize ==
    \/ DoInitialize
    \/ Restart
    \/ DoCreateProject
    \/ DoCreatePageGroup
    \/ DoAddPage
    \/ DoGetProject
    \/ DoLoadPageGroup

SpecInitialize == Init /\ [][NextInitialize]_vars

\* ------------------------------------------------ in-memory service variant
\* sessionPages: the pages of the session, newest first; a page is kept as
\* [id, rootPageId, translationPages], the two links being optional
NewSessionPageId(t) == <<"page", Stamp(t)>>

\* sessionPages.find((p) => p.id === id): the first index, or 0
FindPage(pages, id) ==
    IF \E i \in 1..Len(pages) : pages[i].id = id
    THEN CHOOSE i \in 1..Len(pages) :
            /\ pages[i].id = id
            /\ \A j \in 1..(i - 1) : pages[j].id # id
    ELSE 0

ListsPage(seq, x) == \E i \in 1..Len(seq) : seq[i] = x

SessionCreatePage(pages, t) ==
    <<[id |-> NewSessionPageId(t), rootPageId |-> None,
       translationPages |-> None]>> \o pages

LinkTranslationPage(pages, rootPageId, translationPageId) ==
    LET r == FindPage(pages, rootPageId)
        t == FindPage(pages, translationPageId)
    IN
    IF r = 0 \/ t = 0 THEN [pages |-> pages, ret |-> FALSE] ELSE
    LET listed == Coalesce(pages[r].translationPages, <<>>)
        p1 == [pages EXCEPT ![r].translationPages =
                  Some(IF ListsPage(listed, translationPageId) THEN listed
                       ELSE Append(listed, translationPageId))]
    IN
    [pages |-> [p1 EXCEPT ![t].rootPageId = Some(rootPageId)], ret |-> TRUE]

UnlinkTranslationPage(pages, rootPageId, translationPageId) ==
    LET r == FindPage(pages, rootPageId)
        t == FindPage(pages, translationPageId)
    IN
    IF r = 0 \/ t = 0 THEN [pages |-> pages, ret |-> FALSE] ELSE
    LET p1 == IF IsSome(pages[r].translationPages)
              THEN [pages EXCEPT ![r].translationPages =
                       Some(SelectSeq(@[1], LAMBDA x : x # translationPageId))]
              ELSE pages
    IN
    [pages |-> [p1 EXCEPT ![t].rootPageId = None], ret |-> TRUE]

SessionPageIdsIn == {sessionPages[i].id : i \in 1..Len(sessionPages)} \cup UnknownIds

SessionRest == <<projects, pageGroups, links, blobs, projectCache,
                 pageGroupCache, isInitialized, inflight>>

SessionLinkReq(op, ok, rootPageId, translationPageId) ==
    [op |-> op, ok |-> ok, keep |-> TRUE,
     rootPageId |-> rootPageId, translationPageId |-> translationPageId]

DoSessionCreatePage ==
    /\ now < MaxClock /\ Len(sessionPages) < MaxSessionPages
    /\ now' = now + 1
    /\ sessionPages' = SessionCreatePage(sessionPages, now + 1)
    /\ last' = [op |-> "createPage", ok |-> TRUE, keep |-> TRUE]
    /\ UNCHANGED SessionRest

\* POST /pages/link: 200 when the service answers true, 400 otherwise
DoLinkTranslationPage ==
    /\ \E r \in SessionPageIdsIn, t \in SessionPageIdsIn :
         \E res \in {LinkTranslationPage(sessionPages, r, t)} :
            /\ sessionPages' = res.pages
            /\ last' = SessionLinkReq("linkTranslationPage", res.ret, r, t)
    /\ UNCHANGED now
    /\ UNCHANGED SessionRest

\* DELETE /pages/link
DoUnlinkTranslationPage ==
    /\ \E r \in SessionPageIdsIn, t \in SessionPageIdsIn :
         \E res \in {UnlinkTranslationPage(sessionPages, r, t)} :
            /\ sessionPages' = res.pages
            /\ last' = SessionLinkReq("unlinkTranslationPage", res.ret, r, t)
    /\ UNCHANGED now
    /\ UNCHANGED SessionRest

NextSessionPages ==
    \/ DoSessionCreatePage
    \/ DoLinkTranslationPage
    \/ DoUnlinkTranslationPage

SpecSessionPages == Init /\ [][NextSessionPages]_vars

\* the bodies of POST /pages: JSON with and without a project and without
\* its text, a form with an image for a project, a form without an image
PostPageBodies ==
    LET json == [json |-> TRUE, title |-> Some("Test"), fileName |-> None,
                 language |-> Some("spa"), editedText |-> Some("Hola"),
                 status |-> None, imageFile |-> FALSE, projectId |-> None]
        form == [json |-> FALSE, title |-> None, fileName |-> Some("scan"),
                 language |-> None, editedText |-> Some("Hello"),
                 status |-> None, imageFile |-> TRUE, projectId |-> None]
    IN
    {json, [json EXCEPT !.editedText = None], [form EXCEPT !.imageFile = FALSE]}
    \cup {[json EXCEPT !.projectId = Some(p)] : p \in ProjectIdsIn}
    \cup {[form EXCEPT !.projectId = Some(p)] : p \in ProjectIdsIn}

PostPageReq(body, r) ==
    [op |-> "POST /pages", ok |-> r.ret.status = 201, keep |-> TRUE,
     status |-> r.ret.status, projectId |-> body.projectId,
     id |-> IF IsSome(r.ret.result) THEN Some(r.ret.result[1].id) ELSE None]

DoPostPage ==
    /\ Quiet /\ now < MaxClock
    /\ Cardinality(DOMAIN pageGroups) < MaxPageGroups
    /\ \E f \in FailPlans, body \in PostPageBodies, rnd \in Rands :
         \E r \in {RoutePostPage(Tick(World(f)), body, rnd)} :
            Commit(Tick(World(f)), r, PostPageReq(body, r))
    /\ UNCHANGED <<inflight, sessionPages>>

NextPostPages ==
    \/ DoCreateProject
    \/ DoPostPage
    \/ DoGetProject
    \/ DoLoadPageGroup

SpecPostPages == Init /\ [][NextPostPages]_vars

\* ------------------------------------------------------------ POST /translate
\* A model identifier is the sequence of its "-"-separated parts; no part
\* other than "classical" contains that word, so model.includes("classical")
\* is membership of the part.  "" and <<>> are a missing (falsy) field.
TranslateModels ==
    {<<"gpt", "4o", "classical">>, <<"gpt", "4o">>, <<"gpt", "4", "turbo">>,
     <<"claude", "3", "5", "sonnet", "classical">>, <<"claude", "3", "5", "sonnet">>,
     <<"my", "classical", "llm">>, <<"llama">>, <<>>}
TranslateSources == {"ara", "eng", ""}
TranslateTargets == {"en", ""}
TranslateTexts == {"kitab", ""}
ArabicTextTypes == {"classical", "modern", "religious", "literary", "technical", ""}

TranslateRequests ==
    [text : TranslateTexts, sourceLanguage : TranslateSources,
     targetLanguage : TranslateTargets, model : TranslateModels,
     textType : ArabicTextTypes]

Includes(model, part) == \E i \in 1..Len(model) : model[i] = part

\* switch (model) { ... default: openai("gpt-4o") }
SelectAiModel(model) ==
    CASE model \in {<<"gpt", "4o", "classical">>, <<"gpt", "4o">>} -> "openai:gpt-4o"
      [] model = <<"gpt", "4", "turbo">> -> "openai:gpt-4-turbo"
      [] model \in {<<"claude", "3", "5", "sonnet", "classical">>,
                    <<"claude", "3", "5", "sonnet">>} -> "anthropic:claude-3-5-sonnet-20241022"
      [] OTHER -> "openai:gpt-4o"

\* the condition of the if that picks the prompt builder
ClassicalPromptChosen(req) ==
    /\ req.sourceLanguage = "ara"
    /\ \/ Includes(req.model, "classical")
       \/ req.textType = "classical"
       \/ req.textType = "religious"
       \/ req.textType = "literary"

UsedClassicalPromptMutNoLiterary(req) ==
    /\ req.sourceLanguage = "ara"
    /\ \/ Includes(req.model, "classical")
       \/ req.textType = "classical"
       \/ req.textType = "religious"

\* the usedClassicalPrompt field of the response: the same condition,
\* written out a second time
UsedClassicalPrompt(req) ==
    /\ req.sourceLanguage = "ara"
    /\ \/ Includes(req.model, "classical")
       \/ req.textType = "classical"
       \/ req.textType = "religious"
       \/ req.textType = "literary"

TranslateResponse(status, prompt, used, aiModel) ==
    [status |-> status, prompt |-> prompt, usedClassicalPrompt |-> used,
     aiModel |-> aiModel]

\* POST /translate; generated says whether generateText resolved
RouteTranslate(req, generated) ==
    IF req.text = "" \/ req.targetLanguage = "" \/ req.model = <<>>
    THEN TranslateResponse(400, "none", FALSE, "none") ELSE
    Bind(SelectAiModel(req.model), LAMBDA aiModel :
    Bind(IF ClassicalPromptChosen(req) THEN "classical" ELSE "modern", LAMBDA prompt :
    IF ~generated THEN TranslateResponse(500, prompt, FALSE, aiModel)
    ELSE TranslateResponse(200, prompt, UsedClassicalPrompt(req), aiModel)))

TranslateReq(req, generated, resp) ==
    [op |-> "POST /translate", ok |-> resp.status = 200, keep |-> TRUE,
     request |-> req, generated |-> generated, response |-> resp]

DoTranslate ==
    /\ \E req \in TranslateRequests, generated \in BOOLEAN :
          last' = TranslateReq(req, generated, RouteTranslate(req, generated))
    /\ UNCHANGED <<projects, pageGroups, links, blobs, sessionPages, projectCache,
                   pageGroupCache, isInitialized, now, inflight>>

NextTranslate == DoTranslate

SpecTranslate == Init /\ [][NextTranslate]_vars

\* ------------------------------------------------------ analyzeArabicText
\* A text is a sequence of words separated by single spaces, each one of:
\*   "laalla"   a classical particle (classical pattern 2)
\*   "kaanna"   the particle that is both a classical particle (classical
\*              pattern 2) and a simile marker (literary pattern 2)
\*   "qala"     the classical keyword 1; its pattern asks for \b on both
\*              sides, which no Arabic letter next to a space gives
\*   "allah"    religious pattern 1
\*   "alhadith" the religious keyword 2, which contains the modern keyword 1
\*   "shir"     the literary keyword 1
\*   "pct"      a number with a percent sign (technical pattern 1)
\*   "dirasa"   the technical keyword 1
\*   "alyawm"   the modern keyword 3
\*   "kitab"    a word no pattern and no keyword matches
MaxWords == 3

AnalysisWords ==
    {"laalla", "kaanna", "qala", "allah", "alhadith", "shir", "pct", "dirasa",
     "alyawm", "kitab"}

RECURSIVE SeqsUpTo(_, _)
SeqsUpTo(S, k) ==
    IF k = 0 THEN {<<>>}
    ELSE SeqsUpTo(S, k - 1) \cup
         {Append(s, x) : s \in {t \in SeqsUpTo(S, k - 1) : Len(t) = k - 1}, x \in S}

AnalysisTexts == SeqsUpTo(AnalysisWords, MaxWords)

\* Object.entries(indicators) and Object.entries(scores): insertion order
TextTypeOrder == <<"classical", "religious", "literary", "technical", "modern">>

\* weight, in tenths
Weight10(type) ==
    CASE type = "classical" -> 10
      [] type = "religious" -> 12
      [] type = "literary" -> 11
      [] type = "technical" -> 9
      [] type = "modern" -> 8

\* the words one occurrence of which is one match of a pattern of the type
PatternWords(type) ==
    CASE type = "classical" -> {"laalla", "kaanna"}
      [] type = "religious" -> {"allah"}
      [] type = "literary" -> {"kaanna"}
      [] type = "technical" -> {"pct"}
      [] type = "modern" -> {}

\* technical pattern 2 ([alef-hamza or ya] nun, spaces, one of kaf alef nun)
\* matches across "kaanna" and a following word that starts with kaf or alef
StartsWithKafOrAlef == {"kaanna", "kitab", "allah", "alhadith", "alyawm"}

AcrossWords(type, text) ==
    IF type # "technical" THEN 0
    ELSE Cardinality({i \in 1..(Len(text) - 1) :
                         text[i] = "kaanna" /\ text[i + 1] \in StartsWithKafOrAlef})

\* sum over the patterns of text.match(pattern).length
PatternHits(type, text) ==
    Cardinality({i \in 1..Len(text) : text[i] \in PatternWords(type)})
    + AcrossWords(type, text)

\* the words that contain a keyword of the type, one set per keyword
KeywordWords(type) ==
    CASE type = "classical" -> {{"qala"}}
      [] type = "religious" -> {{"alhadith"}}
      [] type = "literary" -> {{"shir"}}
      [] type = "technical" -> {{"dirasa"}}
      [] type = "modern" -> {{"alhadith"}, {"alyawm"}}

\* the keywords with text.includes(keyword)
KeywordHits(type, text) ==
    Cardinality({k \in KeywordWords(type) : \E i \in 1..Len(text) : text[i] \in k})

\* scores[textType], in tenths
Score10(type, text) == (PatternHits(type, text) + KeywordHits(type, text)) * Weight10(type)

Scores10(text) == [i \in 1..5 |-> Score10(TextTypeOrder[i], text)]

\* Math.max(...Object.values(scores))
MaxScore10(scores) == CHOOSE m \in {scores[i] : i \in 1..5} : \A i \in 1..5 : scores[i] <= m

\* Object.entries(scores).find(([_, score]) => score === maxScore)?.[0] || "modern"
DetectedType(scores) ==
    IF \E i \in 1..5 : scores[i] = MaxScore10(scores)
    THEN TextTypeOrder[CHOOSE i \in 1..5 :
                           /\ scores[i] = MaxScore10(scores)
                           /\ \A j \in 1..(i - 1) : scores[j] # MaxScore10(scores)]
    ELSE "modern"

\* Object.values(scores).sort((a, b) => b - a)[k]
SortedScore(scores, k) ==
    CHOOSE v \in {scores[i] : i \in 1..5} :
        /\ Cardinality({i \in 1..5 : scores[i] > v}) < k
        /\ Cardinality({i \in 1..5 : scores[i] >= v}) >= k

ConfidenceMutThird(scores) ==
    IF MaxScore10(scores) > 0
    THEN [num |-> MaxScore10(scores) - SortedScore(scores, 3), den |-> MaxScore10(scores)]
    ELSE [num |-> 1, den |-> 2]

\* maxScore > 0 ? Math.min((maxScore - sortedScores[1]) / maxScore, 1) : 0.5,
\* as the fraction num / den
Confidence(scores) ==
    IF MaxScore10(scores) > 0
    THEN [num |-> MaxScore10(scores) - SortedScore(scores, 2), den |-> MaxScore10(scores)]
    ELSE [num |-> 1, den |-> 2]

AnalyzeArabicText(text) ==
    Bind(Scores10(text), LAMBDA scores :
    [textType |-> DetectedType(scores), confidence |-> Confidence(scores)])

\* the text the translator has selected, before it is analysed
SelectedText(text) == [op |-> "selectedText", ok |-> TRUE, keep |-> TRUE, text |-> text]

AnalyzeReq(text, result) ==
    [op |-> "analyzeArabicText", ok |-> TRUE, keep |-> TRUE,
     text |-> text, result |-> result]

InitAnalyze ==
    /\ projects = EmptyMap
    /\ pageGroups = EmptyMap
    /\ links = <<>>
    /\ blobs = {}
    /\ projectCache = EmptyMap
    /\ pageGroupCache = EmptyMap
    /\ isInitialized = FALSE
    /\ now = 0
    /\ last \in {SelectedText(text) : text \in AnalysisTexts}
    /\ inflight = EmptyMap
    /\ sessionPages = <<>>

\* const analysis = analyzeArabicText(selectedText.text)
DoAnalyze ==
    /\ last.op = "selectedText"
    /\ last' = AnalyzeReq(last.text, AnalyzeArabicText(last.text))
    /\ UNCHANGED <<projects, pageGroups, links, blobs, sessionPages, projectCache,
                   pageGroupCache, isInitialized, now, inflight>>

NextAnalyze == DoAnalyze

SpecAnalyze == InitAnalyze /\ [][NextAnalyze]_vars

\* ------------------------------------------------------------------ claims
\* A claim about what a call returns is stated of the call made in the
\* current state: Calm is the world as a request without planned failures
\* finds it, Then(r) the world a following request finds after result r.
Calm == World({})
Then(r) == [r.w EXCEPT !.n = 0, !.fail = {}]

Occurrences(seq, x) == Cardinality({i \in 1..Len(seq) : seq[i] = x})

\* C1: every createPage(data) that succeeds is followed by a
\* loadPageFromBlob(createdPage.id) that returns a Page with the same
\* editedText and language.
C1_CreatePageRoundTrip ==
    (last.op = "createPage" /\ last.ok) =>
        LET p == LoadPageFromBlob(Calm, last.id) IN
        /\ IsSome(p.ret)
        /\ p.ret[1].editedText = last.editedText
        /\ p.ret[1].language = last.language

\* C2: for every stored PageGroup pg and every language L with a non-empty
\* translation, loadPageFromBlob(pg.id + "_" + L) returns the Page of that
\* translation: language L, editedText translations[L], rootPageId pg.id.
C2_TranslationPageRoundTrip ==
    \A g \in DOMAIN pageGroups :
        \A l \in DOMAIN pageGroups[g].translations :
            pageGroups[g].translations[l] # "" =>
                LET p == LoadPageFromBlob(Calm, g \o <<l>>) IN
                /\ IsSome(p.ret)
                /\ p.ret[1].language = l
                /\ p.ret[1].editedText = pageGroups[g].translations[l]
                /\ p.ret[1].rootPageId = Some(g)

\* C3: deleteProject(id) returns false when no project with that id is
\* stored and true when one was and was deleted; DELETE /projects/{id}
\* answers 404 for the first and 200 {success: true} for the second.
C3_DeleteProjectReportsExistence ==
    (last.op = "DELETE /projects/{id}" /\ ~last.hit) =>
        IF last.existed
        THEN last.result /\ last.status = 200
        ELSE ~last.result /\ last.status = 404

\* C4: after a deleteProject(id) without storage failure, getProject(id)
\* returns null and loadPageGroupFromBlob returns null for every PageGroup
\* that was linked to the project, whatever the caches held before.
C4_DeleteProjectCascades ==
    \A id \in ProjectIdsIn :
        LET r == DeleteProject(Calm, id) IN
        /\ GetProject(Then(r), id).ret = None
        /\ \A g \in DOMAIN pageGroups :
               HasLink(links, id, g) => LoadPageGroupFromBlob(Then(r), g).ret = None

\* C5: addPageGroupToProject(p, g) for an existing project and page group,
\* called once or again, leaves exactly one (p, g) row in the join table and
\* getProject(p).pageGroups then lists g exactly once.
C5_AddPageGroupIdempotent ==
    \A p \in DOMAIN projects, g \in DOMAIN pageGroups :
        LET Once(r) ==
                /\ r.ret
                /\ CountLinks(r.w.links, p, g) = 1
                /\ \A q \in {GetProject(Then(r), p)} :
                       IsSome(q.ret) /\ Occurrences(q.ret[1].pageGroups, g) = 1
        IN
        \A r1 \in {AddPageGroupToProject(Tick(Calm), p, g)} :
        \A r2 \in {AddPageGroupToProject(Tick(Then(r1)), p, g)} :
            Once(r1) /\ Once(r2)

\* the pair was linked by a POST that succeeded, and the call made again now
\* returns true, touches the project and leaves the one row
C5_LinkedTwice ==
    /\ last.op = "POST /projects/{id}/pages" /\ last.ok /\ ~last.wasLinked
    /\ \E p \in DOMAIN projects, g \in DOMAIN pageGroups :
          /\ CountLinks(links, p, g) = 1
          /\ \E r \in {AddPageGroupToProject(Tick(Calm), p, g)} :
                /\ r.ret
                /\ CountLinks(r.w.links, p, g) = 1
                /\ r.w.links = links
                /\ r.w.projects[p].updatedAt > projects[p].updatedAt

\* C6 as claimed: addPageGroupToProject for a stored project and a
\* pageGroupId that has no row in page_groups still returns true and
\* records the link.
C6_LinksNonexistentPageGroup ==
    \A p \in DOMAIN projects, g \in PageGroupIdsIn :
        g \notin DOMAIN pageGroups =>
            LET r == AddPageGroupToProject(Tick(Calm), p, g) IN
            r.ret /\ HasLink(r.w.links, p, g)

\* C6 as amended: addPageGroupToProject makes no check of its own, but the
\* foreign keys of project_page_groups do: when either id has no row the
\* insert is rejected, the call returns false (the route answers 400) and no
\* link is recorded; when both rows exist it returns true and the link is
\* there.
C6_ForeignKeysRejectUnknownIds ==
    \A p \in ProjectIdsIn, g \in PageGroupIdsIn :
        \A r \in {AddPageGroupToProject(Tick(Calm), p, g)} :
        \A h \in {RouteAddPage(Tick(Calm), p, Some(g))} :
        IF p \in DOMAIN projects /\ g \in DOMAIN pageGroups
        THEN r.ret /\ ~r.thrown /\ HasLink(r.w.links, p, g) /\ h.ret.status = 200
        ELSE /\ ~r.ret /\ ~r.thrown
             /\ r.w.links = links
             /\ h.ret.status = 400

C6_UnknownPageGroupRefused ==
    /\ last.op = "POST /projects/{id}/pages" /\ ~last.ok /\ ~last.rowsExist
    /\ DOMAIN projects # {}
    /\ links = <<>>

\* C7 as claimed: DELETE /projects/{id}/pages for a stored project with a
\* pageId that is not linked to it throws nothing unhandled and answers a 400 or a
\* body with success false, never 200 {success: true}.
C7_UnknownPageNotSuccess ==
    \A f \in FailPlans, p \in DOMAIN projects, g \in PageGroupIdsIn :
        ~HasLink(links, p, g) =>
            \A r \in {RouteRemovePage(Tick(World(f)), p, Some(g))} :
            /\ ~r.thrown
            /\ r.ret.status = 400 \/ ~r.ret.success
            /\ ~(r.ret.status = 200 /\ r.ret.success)

\* C7 as amended: DELETE /projects/{id}/pages with a pageId that is not
\* linked to the project throws nothing unhandled; the delete is idempotent,
\* so it answers 200 {success: true} whenever its storage calls succeed and
\* leaves the join table as it was; only a failing storage call makes it
\* answer 400 (a query failed) or 500 (initialization failed).
C7_UnknownPageIdempotentSuccess ==
    \A f \in FailPlans, p \in ProjectIdsIn, g \in PageGroupIdsIn :
        ~HasLink(links, p, g) =>
            \A r \in {RouteRemovePage(Tick(World(f)), p, Some(g))} :
            /\ ~r.thrown
            /\ r.w.links = links
            /\ IF Hit(r.w)
               THEN ~r.ret.success /\ r.ret.status = (IF r.w.isInitialized THEN 400 ELSE 500)
               ELSE r.ret.success /\ r.ret.status = 200

C7_UnlinkedPageRemoved ==
    /\ last.op = "DELETE /projects/{id}/pages" /\ last.ok /\ ~last.wasLinked
    /\ DOMAIN projects # {}

\* C8: for an existing PageGroup id, after addTranslationToPageGroup(id, L,
\* text) loadPageGroupFromBlob(id).translations[L] = text and every other
\* language is as loadPageGroupFromBlob(id) showed it before; for an id that
\* does not exist the call returns null and changes nothing.
C8_AddTranslationFrame ==
    \A id \in PageGroupIdsIn, l \in TranslationLangs, t \in TranslationTexts :
        \A before \in {LoadPageGroupFromBlob(Calm, id)} :
        \A r \in {AddTranslationToPageGroup(Tick(Calm), id, l, t)} :
        \A after \in {LoadPageGroupFromBlob(Then(r), id)} :
        IF id \in DOMAIN pageGroups
        THEN /\ IsSome(r.ret) /\ IsSome(after.ret) /\ IsSome(before.ret)
             /\ after.ret[1].translations =
                    Put(before.ret[1].translations, l, t)
             /\ r.w.pageGroups[id].translations = after.ret[1].translations
        ELSE /\ r.ret = None /\ ~r.thrown
             /\ r.w.pageGroups = pageGroups
             /\ r.w.pageGroupCache = pageGroupCache

C8_TranslationAddedBesideAnother ==
    /\ last.op = "addTranslationToPageGroup" /\ last.ok
    /\ \E g \in DOMAIN pageGroups :
          /\ pageGroups[g].translations = [x \in {"spa", "fra"} |->
                                              IF x = "spa" THEN "Hola" ELSE "Bonjour"]
          /\ pageGroups[g].updatedAt > pageGroups[g].createdAt

\* C10: updateProject is a partial update: each of title, description and
\* status that the patch leaves out keeps its stored value, so an empty patch
\* changes nothing but updatedAt; id, fileName, rootLanguage,
\* translationLanguages and pageGroups are never changed.
C10_UpdateProjectPartial ==
    \A id \in DOMAIN projects, data \in ProjectPatches :
        \A r \in {UpdateProject(Tick(Calm), id, data)} :
        LET old == projects[id]
            new == r.w.projects[id]
        IN
        /\ id \in DOMAIN r.w.projects
        /\ data.title = None => new.title = old.title
        /\ data.description = None => new.description = old.description
        /\ data.status = None => new.status = old.status
        /\ new.id = old.id /\ new.fileName = old.fileName
        /\ new.rootLanguage = old.rootLanguage
        /\ new.translationLanguages = old.translationLanguages
        /\ new.createdAt = old.createdAt
        /\ r.w.links = links
        /\ IsSome(r.ret)
        /\ r.ret[1].pageGroups = LinkedGroups(links, id)
        /\ r.ret[1].title = new.title /\ r.ret[1].description = new.description
        /\ r.ret[1].status = new.status /\ r.ret[1].fileName = old.fileName
        /\ (data.title = None /\ data.description = None /\ data.status = None)
               => new = [old EXCEPT !.updatedAt = new.updatedAt]

C10_ProjectUpdated ==
    /\ last.op = "updateProject" /\ last.ok
    /\ \E id \in DOMAIN projects :
          /\ projects[id].updatedAt > projects[id].createdAt
          /\ projects[id].title = "Test" /\ projects[id].description = "changed"
          /\ projects[id].status = "active"
          /\ id \in DOMAIN projectCache /\ projectCache[id].description = "changed"


\* C9: under any interleaving of updates and cached reads of one id, once
\* every write has completed a read that starts then returns what storage
\* holds: the cache keeps no value from before a completed write.
C9_NoStaleCacheAfterWrites ==
    ~WriteInFlight =>
        /\ \A id \in DOMAIN projects :
              GetProject(Calm, id).ret = Some(RowToProject(Calm, id))
        /\ \A id \in DOMAIN pageGroups :
              LoadPageGroupFromBlob(Calm, id).ret = Some(pageGroups[id])

\* C11: every createProject that succeeds returns a Project with status
\* active, the translationLanguages it was given and no page groups, and the
\* getProject(returned id) that follows returns that same project.
C11_CreateProjectThenGet ==
    \A data \in ProjectInputs, rnd \in Rands, f \in FailPlans :
        \A r \in {CreateProject(Tick(World(f)), data, rnd)} :
            ~r.thrown =>
                /\ IsSome(r.ret)
                /\ r.ret[1].status = "active"
                /\ r.ret[1].title = data.title
                /\ r.ret[1].rootLanguage = data.rootLanguage
                /\ r.ret[1].translationLanguages = data.translationLanguages
                /\ r.ret[1].pageGroups = <<>>
                /\ r.ret[1].id \in DOMAIN r.w.projects
                /\ \A q \in {GetProject(Then(r), r.ret[1].id)} :
                       /\ q.ret = r.ret
                       /\ q.ret[1].pageGroups = <<>>

\* a project was created by the last request and is stored and cached as
\* it was returned
C11_ProjectCreated ==
    /\ last.op = "createProject" /\ last.ok
    /\ \E id \in DOMAIN projects :
          /\ id \in DOMAIN projectCache
          /\ projectCache[id].status = "active"
          /\ projectCache[id].translationLanguages = <<"ara">>
          /\ projectCache[id].pageGroups = <<>>
          /\ GetProject(Calm, id).ret = Some(projectCache[id])

\* how many entries of a pagesByLanguage list carry the id
EntriesWithId(pages, lang, id) ==
    IF lang \notin DOMAIN pages THEN 0
    ELSE Cardinality({i \in 1..Len(pages[lang]) : pages[lang][i].id = id})

\* what getProjectWithPages must list for the page groups `linked`, as rows
\* of the table `pgs`: one root entry and one entry per translation each,
\* with the stored texts, and nothing else
ListsExactly(pages, linked, pgs) ==
    /\ \A k \in 1..Len(linked) :
          LET pg == pgs[linked[k]] IN
          /\ EntriesWithId(pages, pg.rootLanguage, pg.id) = 1
          /\ \A i \in 1..Len(pages[pg.rootLanguage]) :
                pages[pg.rootLanguage][i].id = pg.id =>
                    /\ pages[pg.rootLanguage][i].editedText = pg.rootText
                    /\ pages[pg.rootLanguage][i].language = pg.rootLanguage
          /\ \A l \in DOMAIN pg.translations :
                /\ EntriesWithId(pages, l, pg.id \o <<l>>) = 1
                /\ \A i \in 1..Len(pages[l]) :
                      pages[l][i].id = pg.id \o <<l>> =>
                          /\ pages[l][i].editedText = pg.translations[l]
                          /\ pages[l][i].language = l
                          /\ pages[l][i].rootPageId = Some(pg.id)
    /\ \A l \in DOMAIN pages :
          Len(pages[l]) =
              Cardinality({k \in 1..Len(linked) : pgs[linked[k]].rootLanguage = l})
              + Cardinality({k \in 1..Len(linked) :
                                l \in DOMAIN pgs[linked[k]].translations})

\* C12: once page groups are linked to a stored project,
\* getProjectWithPages(project) lists for every linked page group one root
\* page under its root language (editedText = rootText) and one page under
\* each of its translation languages, and nothing under any other language;
\* after a translation is added, its language lists one page for it.
C12_PagesByLanguage ==
    \A p \in DOMAIN projects, g1 \in DOMAIN pageGroups, g2 \in DOMAIN pageGroups :
        \A r1 \in {AddPageGroupToProject(Tick(Calm), p, g1)} :
        \A r2 \in {AddPageGroupToProject(Tick(Then(r1)), p, g2)} :
        \A v \in {GetProjectWithPages(Then(r2), p)} :
        \A r3 \in {AddTranslationToPageGroup(Tick(Then(v)), g1, "fra", "Bonjour")} :
        \A v2 \in {GetProjectWithPages(Then(r3), p)} :
        /\ r1.ret /\ r2.ret /\ IsSome(v.ret) /\ IsSome(r3.ret) /\ IsSome(v2.ret)
        /\ v.ret[1].project.pageGroups = LinkedGroups(r2.w.links, p)
        /\ HasLink(r2.w.links, p, g1) /\ HasLink(r2.w.links, p, g2)
        /\ ListsExactly(v.ret[1].pagesByLanguage,
                        LinkedGroups(r2.w.links, p), r2.w.pageGroups)
        /\ ListsExactly(v2.ret[1].pagesByLanguage,
                        LinkedGroups(r3.w.links, p), r3.w.pageGroups)
        /\ EntriesWithId(v2.ret[1].pagesByLanguage, "fra", g1 \o <<"fra">>) = 1

\* getProjectWithPages has just listed a project whose linked page group has
\* a Spanish translation: one page under eng, one under spa, none under fra
C12_ListedRootAndTranslation ==
    /\ last.op = "getProjectWithPages" /\ last.ok
    /\ \E p \in DOMAIN projects, g \in DOMAIN pageGroups :
          /\ HasLink(links, p, g)
          /\ DOMAIN pageGroups[g].translations = {"spa"}
          /\ \E v \in {GetProjectWithPages(Calm, p)} :
                /\ IsSome(v.ret)
                /\ DOMAIN v.ret[1].pagesByLanguage = {"eng", "spa"}
                /\ EntriesWithId(v.ret[1].pagesByLanguage, "eng", g) = 1
                /\ EntriesWithId(v.ret[1].pagesByLanguage, "spa", g \o <<"spa">>) = 1

\* C13: a request to GET /projects, GET /projects/{id}, PUT /projects/{id} or
\* DELETE /projects/{id} during which a storage call fails is answered 500,
\* never 200 or 404.
C13_StorageFailureIs500 ==
    \A f \in FailPlans :
        /\ \A r \in {RouteGetProjects(World(f))} :
              Hit(r.w) => r.ret.status = 500
        /\ \A id \in ProjectIdsIn :
              /\ \A r \in {RouteGetProject(World(f), id)} :
                    Hit(r.w) => r.ret.status = 500
              /\ \A data \in ProjectPatches :
                    \A r \in {RoutePutProject(Tick(World(f)), id, data)} :
                       Hit(r.w) => r.ret.status = 500
              /\ \A r \in {RouteDeleteProject(World(f), id)} :
                    Hit(r.w) => r.ret.status = 500

\* the plan in which the first storage call of a request fails and every
\* later one succeeds; once the service is initialized, the first call of
\* createPageGroup with an image is the blob upload
FirstCallFails == {1}

\* C14: when createPageGroup is given an image file and the upload fails
\* while the insert succeeds, the call succeeds without an error, and the
\* PageGroup is stored and cached with imageUrl and imageBlobId unset.
C14_UploadFailureIsSilent ==
    isInitialized =>
        \A data \in PageGroupInputs, rnd \in Rands :
            data.imageFile =>
                \A r \in {CreatePageGroup(Tick(World(FirstCallFails)), data, rnd)} :
                    /\ Hit(r.w) /\ ~r.thrown /\ IsSome(r.ret)
                    /\ r.ret[1].imageUrl = None /\ r.ret[1].imageBlobId = None
                    /\ r.ret[1].id \notin DOMAIN pageGroups
                    /\ r.ret[1].id \in DOMAIN r.w.pageGroups
                    /\ r.w.pageGroups[r.ret[1].id] = r.ret[1]
                    /\ r.ret[1].id \in DOMAIN r.w.pageGroupCache
                    /\ r.w.pageGroupCache[r.ret[1].id] = r.ret[1]
                    /\ r.w.blobs = blobs
                    /\ LoadPageGroupFromBlob(Then(r), r.ret[1].id).ret = r.ret

\* the last createPageGroup was given an image (only that input carries the
\* Spanish translation "Hola") and stored its page group without one
C14_CreatedWithoutImage ==
    /\ last.op = "createPageGroup" /\ last.ok
    /\ \E g \in DOMAIN pageGroups :
          /\ pageGroups[g].createdAt = now
          /\ "spa" \in DOMAIN pageGroups[g].translations
          /\ pageGroups[g].translations["spa"] = "Hola"
          /\ pageGroups[g].imageUrl = None /\ pageGroups[g].imageBlobId = None
          /\ g \in DOMAIN pageGroupCache /\ pageGroupCache[g] = pageGroups[g]

\* the plan in which the blob delete of deletePageGroup(id) fails and the
\* row delete succeeds: the blob delete is the first storage call when the
\* page group is answered from the cache, the second after a SELECT
BlobDeleteFails(id) == IF id \in DOMAIN pageGroupCache THEN {1} ELSE {2}

\* C15: deletePageGroup(id) of a page group with an image, when deleting the
\* blob fails: the row is still deleted, the cache entry removed, the call
\* returns true, and loadPageGroupFromBlob(id) then returns null.
C15_BlobDeleteFailureTolerated ==
    \A id \in DOMAIN pageGroups :
        IsSome(pageGroups[id].imageBlobId) =>
            \A r \in {DeletePageGroup(World(BlobDeleteFails(id)), id)} :
                /\ Hit(r.w) /\ ~r.thrown /\ r.ret
                /\ id \notin DOMAIN r.w.pageGroups
                /\ id \notin DOMAIN r.w.pageGroupCache
                /\ r.w.blobs = blobs
                /\ \A q \in {LoadPageGroupFromBlob(Then(r), id)} :
                      q.ret = None /\ ~q.thrown

\* the last deletePageGroup found its page group in the cache, had a storage
\* call fail and still returned true: the blob is left, the rows are gone
C15_DeletedRowKeptBlob ==
    /\ last.op = "deletePageGroup" /\ last.ok /\ last.hit /\ last.cached
    /\ blobs # {}
    /\ pageGroups = EmptyMap /\ pageGroupCache = EmptyMap

\* C16: in every POST /translate that is answered 200 the classical-Arabic
\* prompt was built exactly when sourceLanguage is "ara" and the model
\* identifier contains "classical" or textType is classical, religious or
\* literary; usedClassicalPrompt says which builder was called; a source
\* other than "ara" never uses it; and "ara" with textType "religious" is
\* answered with usedClassicalPrompt = true whatever the model identifier.
C16_ClassicalPromptSelection ==
    last.op = "POST /translate" =>
        LET req == last.request
            resp == last.response
            given == req.text # "" /\ req.targetLanguage # "" /\ req.model # <<>>
        IN
        /\ resp.status = 200 <=> (given /\ last.generated)
        /\ resp.status = 200 =>
              /\ (resp.prompt = "classical") <=>
                    (req.sourceLanguage = "ara"
                       /\ ("classical" \in {req.model[i] : i \in 1..Len(req.model)}
                             \/ req.textType \in {"classical", "religious", "literary"}))
              /\ resp.usedClassicalPrompt <=> (resp.prompt = "classical")
              /\ req.sourceLanguage # "ara" => ~resp.usedClassicalPrompt
              /\ (req.sourceLanguage = "ara" /\ req.textType = "religious")
                    => resp.usedClassicalPrompt

\* a religious Arabic text was translated with a model whose identifier does
\* not say classical, and the answer reports the classical prompt
C16_ReligiousWithPlainModel ==
    /\ last.op = "POST /translate" /\ last.ok
    /\ last.request.sourceLanguage = "ara" /\ last.request.textType = "religious"
    /\ last.request.model = <<"gpt", "4", "turbo">>
    /\ last.response.status = 200
    /\ last.response.prompt = "classical" /\ last.response.usedClassicalPrompt

\* is a required field of the body of POST /projects missing or empty?
Incomplete(body) ==
    \/ body.title = "" \/ body.rootLanguage = ""
    \/ body.translationLanguages = None \/ body.translationLanguages = Some(<<>>)

\* C17: POST /projects answers 400 and creates nothing (no row, no cache
\* entry) when title or rootLanguage is missing or translationLanguages is
\* missing or empty; with all three present and storage succeeding it
\* answers 201 with the created Project.
C17_PostProjectValidates ==
    \A body \in PostProjectBodies, rnd \in Rands :
        IF Incomplete(body)
        THEN \A f \in FailPlans :
             \A r \in {RoutePostProject(Tick(World(f)), body, rnd)} :
                 /\ r.ret.status = 400
                 /\ r.w.projects = projects /\ r.w.projectCache = projectCache
                 /\ r.w.n = 0
        ELSE \A r \in {RoutePostProject(Tick(Calm), body, rnd)} :
                 /\ r.ret.status = 201 /\ IsSome(r.ret.result)
                 /\ r.ret.result[1].title = body.title
                 /\ r.ret.result[1].rootLanguage = body.rootLanguage
                 /\ r.ret.result[1].translationLanguages = body.translationLanguages[1]
                 /\ r.ret.result[1].id \notin DOMAIN projects
                 /\ r.ret.result[1].id \in DOMAIN r.w.projects
                 /\ r.w.projectCache[r.ret.result[1].id] = r.ret.result[1]

\* a POST /projects with an incomplete body has just been refused, with
\* nothing stored and nothing cached
C17_IncompleteBodyRefused ==
    /\ last.op = "POST /projects" /\ ~last.ok /\ last.status = 400
    /\ projects = EmptyMap /\ projectCache = EmptyMap
    /\ ~isInitialized

\* C18: updatePageGroup(id, data) replaces the whole translations mapping
\* whenever data gives one (an empty one included), leaves every field data
\* does not give at its stored value, and returns the page group as reloaded
\* from storage, or null when no page group has that id.
C18_UpdatePageGroupPartial ==
    \A id \in PageGroupIdsIn, data \in PageGroupPatches :
        \A r \in {UpdatePageGroup(Tick(Calm), id, data)} :
            IF id \in DOMAIN pageGroups
            THEN LET old == pageGroups[id]
                     new == r.w.pageGroups[id]
                 IN
                 /\ ~r.thrown /\ r.ret = Some(new)
                 /\ new.translations = IF IsSome(data.translations)
                                       THEN data.translations[1] ELSE old.translations
                 /\ new.title = IF IsSome(data.title) THEN data.title[1] ELSE old.title
                 /\ new.rootText = IF IsSome(data.rootText)
                                   THEN data.rootText[1] ELSE old.rootText
                 /\ new.status = IF IsSome(data.status) THEN data.status[1] ELSE old.status
                 /\ new = [old EXCEPT !.translations = new.translations,
                                      !.title = new.title, !.rootText = new.rootText,
                                      !.status = new.status, !.updatedAt = new.updatedAt]
                 /\ DOMAIN r.w.pageGroups = DOMAIN pageGroups
                 /\ \A g \in DOMAIN pageGroups \ {id} : r.w.pageGroups[g] = pageGroups[g]
            ELSE /\ r.ret = None /\ ~r.thrown
                 /\ r.w.pageGroups = pageGroups

\* an updatePageGroup with an empty translations mapping has just emptied
\* the translations of the page group that was created with a Spanish one
\* (the one created with an image)
C18_TranslationsEmptied ==
    /\ last.op = "updatePageGroup" /\ last.ok
    /\ \E g \in DOMAIN pageGroups :
          /\ pageGroups[g].imageBlobId # None
          /\ pageGroups[g].translations = EmptyMap
          /\ pageGroups[g].updatedAt > pageGroups[g].createdAt
          /\ pageGroups[g].rootText = "Hello"
          /\ g \in DOMAIN pageGroupCache /\ pageGroupCache[g] = pageGroups[g]

\* the page groups of `ids` linked one after the other to project p
RECURSIVE LinkEach(_, _, _)
LinkEach(w, p, ids) ==
    IF ids = {} THEN w ELSE
    Bind(CHOOSE g \in ids : TRUE, LAMBDA g :
    LinkEach(Then(AddPageGroupToProject(Tick(w), p, g)), p, ids \ {g}))

\* C19: deleteProject is best-effort: when a storage call fails while the
\* loop over the linked page groups runs, the page groups deleted before it
\* stay deleted, the ones after it are still deleted, and the project row is
\* deleted all the same; at most the one page group whose DELETE failed is
\* left, and the method still returns true.
C19_DeleteProjectBestEffort ==
    \A p \in DOMAIN projects, warm \in BOOLEAN :
        \A w1 \in {LinkEach(Calm, p, DOMAIN pageGroups)} :
        \A w2 \in {IF warm THEN Then(GetProject(w1, p)) ELSE w1} :
        \A g \in {GetProject(w2, p)} :
        \A calls \in {DeleteProject(w2, p).w.n} :
        \* the calls after getProject's and before the last one (DELETE FROM
        \* projects) are those of the loop
        \A k \in (g.w.n + 1)..(calls - 1) :
        \A r \in {DeleteProject([w2 EXCEPT !.fail = {k}], p)} :
               /\ IsSome(g.ret) /\ Hit(r.w)
               /\ r.ret /\ ~r.thrown
               /\ p \notin DOMAIN r.w.projects
               /\ p \notin DOMAIN r.w.projectCache
               /\ \A x \in DOMAIN pageGroups : ~HasLink(r.w.links, p, x)
               /\ DOMAIN r.w.pageGroups \subseteq DOMAIN pageGroups
               /\ Cardinality(DOMAIN r.w.pageGroups) <= 1
               /\ \A x \in DOMAIN r.w.pageGroups : r.w.pageGroups[x] = pageGroups[x]

\* a DELETE /projects/{id} of a cached project has just answered 200 although
\* a storage call of its loop failed: the project row is gone and the page
\* group that was linked to it is still stored
C19_ProjectGonePageGroupLeft ==
    /\ last.op = "DELETE /projects/{id}"
    /\ last.existed /\ last.cached /\ last.hit /\ last.result
    /\ projects = EmptyMap
    /\ \E x \in last.linked : x \in DOMAIN pageGroups

\* C20: POST /page-groups/{id}/translations with a body {language, text},
\* both non-empty, answers 200 with {success, pageGroup} when the page group
\* exists and 404 when it does not; with language or text missing it answers
\* 400 and stores nothing.
C20_PostTranslationsByText ==
    \A h \in TranslationHandlers, id \in PageGroupIdsIn, body \in TranslationBodies :
        \A r \in {PostTranslations(h, Tick(Calm), id, body)} :
            IF body.language # "" /\ body.text # ""
            THEN IF id \in DOMAIN pageGroups
                 THEN /\ r.ret.status = 200 /\ r.ret.success
                      /\ r.ret.result = Some(r.w.pageGroups[id])
                      /\ r.w.pageGroups[id].translations[body.language] = body.text
                 ELSE r.ret.status = 404
            ELSE /\ r.ret.status = 400
                 /\ Stored(r.w) = Stored(Calm)

\* C21: for a stored page group pg, deletePage(pg.id + "_" + L) removes only
\* translations[L] and returns true, deletePage(pg.id) deletes the whole page
\* group and returns true, updatePage(pg.id, {editedText}) changes rootText,
\* and updatePage(pg.id + "_" + L, {editedText}) changes only translations[L].
C21_PageDispatch ==
    \A id \in DOMAIN pageGroups, data \in PagePatches :
        /\ \A d \in {DeletePage(Tick(Calm), id)} :
              d.ret /\ id \notin DOMAIN d.w.pageGroups
        /\ \A u \in {UpdatePage(Tick(Calm), id, data)} :
              /\ id \in DOMAIN u.w.pageGroups
              /\ u.w.pageGroups[id].rootText = data.editedText[1]
              /\ u.w.pageGroups[id].translations = pageGroups[id].translations
        /\ \A l \in DOMAIN pageGroups[id].translations :
              /\ \A d \in {DeletePage(Tick(Calm), id \o <<l>>)} :
                    /\ d.ret /\ id \in DOMAIN d.w.pageGroups
                    /\ d.w.pageGroups[id].translations =
                           Drop(pageGroups[id].translations, l)
                    /\ d.w.pageGroups[id].rootText = pageGroups[id].rootText
              /\ \A u \in {UpdatePage(Tick(Calm), id \o <<l>>, data)} :
                    /\ id \in DOMAIN u.w.pageGroups
                    /\ u.w.pageGroups[id].translations =
                           Put(pageGroups[id].translations, l, data.editedText[1])
                    /\ u.w.pageGroups[id].rootText = pageGroups[id].rootText

\* C22: analyzeArabicText returns as textType a category whose weighted score
\* (pattern hits plus keyword hits, times the category weight) is maximal
\* among the five, and a confidence that lies in [0, 1] and, when the top
\* score is positive, equals (top score - second-highest score) / top score;
\* the result is that of the text alone.
C22_ArgMaxAndConfidence ==
    last.op = "analyzeArabicText" =>
        \A scores \in {Scores10(last.text)} :
        \A k \in {CHOOSE k \in 1..5 : TextTypeOrder[k] = last.result.textType} :
        LET conf == last.result.confidence
            others == {scores[i] : i \in (1..5) \ {k}}
            second == CHOOSE v \in others : \A x \in others : x <= v
        IN
        /\ \A i \in 1..5 : scores[i] <= scores[k]
        /\ \A i \in 1..5 :
              scores[i] = (Cardinality({j \in 1..Len(last.text) :
                                           last.text[j] \in PatternWords(TextTypeOrder[i])})
                           + AcrossWords(TextTypeOrder[i], last.text)
                           + KeywordHits(TextTypeOrder[i], last.text))
                          * Weight10(TextTypeOrder[i])
        /\ conf.den > 0 /\ 0 <= conf.num /\ conf.num <= conf.den
        /\ scores[k] > 0 => conf.num * scores[k] = (scores[k] - second) * conf.den
        /\ last.result = AnalyzeArabicText(last.text)

\* a text with two religious hits and one classical hit was analysed:
\* religious wins with 24 tenths against 10, confidence 14/24
C22_ReligiousOverClassical ==
    /\ last.op = "analyzeArabicText"
    /\ last.text = <<"allah", "laalla", "allah">>
    /\ last.result.textType = "religious"
    /\ last.result.confidence = [num |-> 14, den |-> 24]

\* C30: for a text that matches no pattern and no keyword of any category
\* analyzeArabicText answers textType "modern" with confidence 0.5, and when
\* several categories tie for the top score the result is that of the text
\* alone.
C30_ZeroScoresFallBackToModern ==
    last.op = "analyzeArabicText" =>
        /\ (\A i \in 1..5 : Scores10(last.text)[i] = 0) =>
              /\ last.result.textType = "modern"
              /\ last.result.confidence = [num |-> 1, den |-> 2]
        /\ last.result = AnalyzeArabicText(last.text)

\* C23: when a page group g is linked to two projects A and B, after
\* deleteProject(A) g is still stored and still linked to B.
C23_DeleteProjectSparesShared ==
    \A a \in DOMAIN projects, g \in DOMAIN pageGroups,
       data \in ProjectInputs, rnd \in Rands :
        \A b \in {CreateProject(Tick(Calm), data, rnd)} :
        ~b.thrown =>
        \A l1 \in {AddPageGroupToProject(Tick(Then(b)), a, g)} :
        \A l2 \in {AddPageGroupToProject(Tick(Then(l1)), b.ret[1].id, g)} :
        (l1.ret /\ l2.ret /\ b.ret[1].id # a) =>
        \A d \in {DeleteProject(Then(l2), a)} :
            /\ g \in DOMAIN d.w.pageGroups
            /\ HasLink(d.w.links, b.ret[1].id, g)
            /\ \A q \in {GetProject(Then(d), b.ret[1].id)} :
                  IsSome(q.ret) /\ Occurrences(q.ret[1].pageGroups, g) = 1

\* C24: once deletePageGroup(g) has completed, getProject(p).pageGroups does
\* not contain g for any project p, whether or not p was in the project
\* cache before the delete.
C24_NoDanglingLinks ==
    \A g \in PageGroupIdsIn :
        \A d \in {DeletePageGroup(Calm, g)} :
        d.ret =>
        \A p \in ProjectIdsIn :
        \A q \in {GetProject(Then(d), p)} :
            IsSome(q.ret) => Occurrences(q.ret[1].pageGroups, g) = 0

\* C25: when two addTranslationToPageGroup calls for different languages run
\* interleaved on the same stored page group and both return non-null, the
\* stored translations afterwards hold both languages with their texts.
C25_NoLostTranslation ==
    \A s1 \in DOMAIN inflight, s2 \in DOMAIN inflight :
        (/\ inflight[s1].pc = "done" /\ inflight[s2].pc = "done"
         /\ IsSome(inflight[s1].result) /\ IsSome(inflight[s2].result)
         /\ inflight[s1].id = inflight[s2].id
         /\ inflight[s1].language # inflight[s2].language)
        => /\ inflight[s1].id \in DOMAIN pageGroups
           /\ \A s \in {s1, s2} :
                 /\ inflight[s].language
                        \in DOMAIN pageGroups[inflight[s].id].translations
                 /\ pageGroups[inflight[s].id].translations[inflight[s].language]
                        = inflight[s].text


\* C26: when the storage update inside addTranslationToPageGroup fails, the
\* call reports failure (null) and a later loadPageGroupFromBlob(id) returns
\* the translations that storage holds, not the change that was not stored.
C26_FailedWriteLeavesNoTrace ==
    \A id \in DOMAIN pageGroups, l \in TranslationLangs, t \in TranslationTexts,
       f \in FailPlans :
        \A r \in {AddTranslationToPageGroup(Tick(World(f)), id, l, t)} :
        \A after \in {LoadPageGroupFromBlob(Then(r), id)} :
            (Hit(r.w) /\ r.w.pageGroups = pageGroups)
            => /\ r.ret = None
               /\ IsSome(after.ret)
               /\ after.ret[1].translations = r.w.pageGroups[id].translations


C28_LinksSymmetric ==
    LET n == Len(sessionPages)
        Lists(i, j) ==
            /\ IsSome(sessionPages[i].translationPages)
            /\ ListsPage(sessionPages[i].translationPages[1], sessionPages[j].id)
    IN
    /\ \A i \in 1..n, j \in 1..n :
          (sessionPages[j].rootPageId = Some(sessionPages[i].id)) <=> Lists(i, j)
    /\ \A j \in 1..n :
          Cardinality({i \in 1..n : Lists(i, j)}) <= 1


\* C29: whenever POST /pages with a projectId answers 201, the page group of
\* the created page is linked to that project: getProject(projectId) lists
\* it in pageGroups; a failed link step is not answered with 201.
C29_CreatedPageIsLinked ==
    \A f \in FailPlans, body \in PostPageBodies, rnd \in Rands :
        \A r \in {RoutePostPage(Tick(World(f)), body, rnd)} :
            (r.ret.status = 201 /\ IsSome(body.projectId))
            => \A g \in {GetProject(Then(r), body.projectId[1])} :
                  /\ IsSome(g.ret)
                  /\ \E i \in 1..Len(g.ret[1].pageGroups) :
                        g.ret[1].pageGroups[i] = r.ret.result[1].id

====
